---------------------------- MODULE Spec2Model ----------------------------
(***************************************************************************)
(* Notification pipeline of InTube, as written in                          *)
(* src/notification_system.md: the grouping engine                         *)
(* (groupSimilarNotifications, generateGroupedMessage), the notification   *)
(* and preference schemas, the preference check (shouldDeliverToChannel),  *)
(* the delivery router, the ws server and the socket.io cluster, the       *)
(* event emitter with its handlers and the comment controller, the        *)
(* read-status functions and the notification feed; and, of the back      *)
(* end, the login rate limiter (src/unnamed/part_000) and asyncHandler     *)
(* (src/back-end/src/utils/asyncHandler.js).                               *)
(*                                                                         *)
(* Every await of the JavaScript code is a suspension point: one action    *)
(* models the code between two awaits (the store call included, which      *)
(* MongoDB executes atomically per document).                              *)
(***************************************************************************)
EXTENDS Integers, Sequences, FiniteSets, TLC

(***************************************************************************)
(* Bounds of the model.                                                    *)
(***************************************************************************)
\* Handlers that may be in flight at once (event loop / server processes).
NumProcs == 2
\* Calls of groupSimilarNotifications in one behaviour.
MaxEvents == 3
\* Clock steps in one behaviour, and the length of one step in ms.
MaxTicks == 3
TickMs == 1800000
\* Writes to the preference records in one behaviour.
MaxPrefWrites == 1
\* Notifications sent through the delivery router in one behaviour.
MaxDeliveries == 2
\* WebSocket connections accepted by the ws server in one behaviour.
NumSockets == 3
\* Listeners registered on the event emitter for one event type.
MaxListeners == 3
\* Events emitted, and addComment requests served, in one behaviour.
MaxEmits == 2

\* The largest page of the feed and of the notification centre.
MaxLimit == 2

\* Login requests in one behaviour; clock steps of the HTTP server and the
\* length of one step in ms; the longest time the limit handler spends on
\* the log entry, in ms.
MaxRequests == 7
MaxLimitTicks == 4
LimitTickMs == 190000
MaxLogDelayMs == 40000
\* Requests served through asyncHandler in one behaviour.
MaxCalls == 2

(***************************************************************************)
(* Program constants.                                                      *)
(***************************************************************************)
\* createdAt: { $gte: new Date(Date.now() - 3600000) }
GroupWindowMs == 3600000
\* loginLimiter: windowMs: 10 * 60 * 1000, max: 5
windowMs == 600000
max == 5
\* (req.rateLimit.resetTime - now) / 60000
MsPerMinute == 60000

Procs == 1 .. NumProcs

\* JavaScript's undefined for a missing string value, and for a missing data.count.
Undefined == "undefined"
NoCount == -1

(***************************************************************************)
(* Candidate notifications handed to groupSimilarNotifications.  The first *)
(* is the base key; the next four differ from it in exactly one field of   *)
(* (recipient, type, resourceType, resourceId); the last has a type with   *)
(* no template of its own.  data is undefined, or an object with some      *)
(* other key ("extra") and possibly a count of its own.                    *)
(***************************************************************************)
NoData == [count |-> NoCount, extra |-> Undefined]

Cand(r, s, t, rt, rid, m, d) ==
    [recipient |-> r, sender |-> s, type |-> t, resourceType |-> rt,
     resourceId |-> rid, message |-> m, data |-> d]

Candidates ==
    { Cand("u1", "u2", "LIKE", "VIDEO", "v1", "u2 liked your video", NoData),
      Cand("u2", "u1", "LIKE", "VIDEO", "v1", "u1 liked your video", NoData),
      Cand("u1", "u2", "COMMENT", "VIDEO", "v1", "New comment on your video",
           [count |-> NoCount, extra |-> "commentId"]),
      Cand("u1", "u2", "LIKE", "COMMENT", "v1", "u2 liked your comment", NoData),
      Cand("u1", "u2", "LIKE", "VIDEO", "v2", "u2 liked your video",
           [count |-> 7, extra |-> "videoTitle"]),
      Cand("u1", "u2", "SUBSCRIPTION", "USER", "u2", "u2 subscribed to your channel!",
           NoData) }

\* The grouping key of a candidate or of a stored row.
KeyOf(n) == <<n.recipient, n.type, n.resourceType, n.resourceId>>

Keys == { KeyOf(c) : c \in Candidates }

(***************************************************************************)
(* State.                                                                  *)
(***************************************************************************)
VARIABLES
    now,      \* Date.now(), in ms
    store,    \* the Notification collection: a sequence of rows, _id = index
    pc,       \* per handler: "idle", or "found" (findOne has returned)
    local,    \* per handler: userId, newNotification, similar, the time of the query
    started,  \* calls of groupSimilarNotifications so far
    applied,  \* history: per row, the calls that have inserted or updated it
    hist,     \* history: per key, the completed calls and the first and last query time
    lastOp    \* history: the last store write of the grouping engine

gvars == <<now, store, pc, local, started, applied, hist, lastOp>>

VARIABLES
    prefs,       \* the NotificationPreferences collection: one record per user, or none
    prefStoreUp, \* whether the preference collection can be read
    prefWrites,  \* writes to the preference records so far
    call         \* history: the last call of the resolver and what it returned

pvars == <<prefs, prefStoreUp, prefWrites, call>>

VARIABLES
    dlv,         \* the delivery in progress, or the last one done
    deliveries   \* calls of deliver so far

dvars == <<dlv, deliveries>>

VARIABLES
    clients,     \* the ws server's registry: userId -> socket (0: no entry)
    socks,       \* the sockets the ws server has accepted
    wsLog,       \* history: the last two registry operations
    wsSent       \* history: the last call of sendNotificationToUser (ws server)
                 \* since the registry was last written

wvars == <<clients, socks, wsLog, wsSent>>

VARIABLES
    ioSocks,     \* the sockets of the socket.io cluster
    rooms,       \* per server process: room "user:<id>" -> the sockets in it
    pending,     \* the server processes the adapter has yet to hand the
                 \* current broadcast to
    ioPub        \* history: the current (last) broadcast

fvars == <<ioSocks, rooms, pending, ioPub>>

VARIABLES
    listeners,      \* eventEmitter: event type -> the listeners, in order of registration
    pendingCreates, \* calls of NotificationService.createNotification awaited by a handler
    emits,          \* events emitted so far
    busSent,        \* history: the last call of emitEvent
    req,            \* the addComment request in progress, or the last one served
    comments        \* the Comment collection: the ids of the stored comments

bvars == <<listeners, pendingCreates, emits, busSent, req, comments>>

VARIABLES
    regroup,        \* history: the row the last event was merged into, as it
                    \* was before, until the next read-status call
    readOp          \* history: the last read-status call, since the user's
                    \* last notification arrived

rvars == <<readOp, regroup>>

VARIABLES
    backplaneUp,    \* whether the adapter's Redis connection is available
    downRows,       \* history: the rows persisted while it was not
    downPub         \* history: the current broadcast was emitted while it was
                    \* not, and it has not come back since

hvars == <<backplaneUp, downRows, downPub>>

VARIABLES
    runtime         \* "up" while the process that runs the event bus is up;
                    \* otherwise what the rejection that ended it came from

uvars == <<runtime>>

VARIABLES
    limiter,        \* the store of the login rate limiter: per key, the hits
                    \* of its window and the time the window ends
    windowing,      \* how the store starts windows ("unset" before the
                    \* first request)
    clock,          \* Date.now() of the HTTP server, in ms
    passedAt,       \* history: per IP, the times of the requests that were
                    \* handed to the login handler
    lastReq         \* history: the last login request and its answer

lvars == <<limiter, windowing, clock, passedAt, lastReq>>

VARIABLES
    wrapped         \* the requests served through asyncHandler

avars == <<wrapped>>

\* The components that the pipeline specifications leave alone.
xvars == <<wvars, fvars, bvars, rvars, hvars, uvars, lvars, avars>>

\* findOne's result when no document matches (null), and otherwise.
Null == [found |-> FALSE, id |-> 0, data |-> NoData]
Found(i, d) == [found |-> TRUE, id |-> i, data |-> d]

NoNotification == Cand(Undefined, Undefined, Undefined, Undefined, Undefined,
                       Undefined, NoData)
NoLocal == [userId |-> Undefined, newNotification |-> NoNotification,
            similar |-> Null, at |-> 0]
NoHist == [n |-> 0, first |-> -1, last |-> -1]
NoOp == [kind |-> "none", id |-> 0, key |-> <<>>]

(***************************************************************************)
(* generateGroupedMessage(type, count)                                     *)
(***************************************************************************)
\* Mutant: the LIKE and COMMENT templates are swapped.
generateGroupedMessage_Swapped(type, count) ==
    CASE type = "COMMENT" ->
           "You received " \o ToString(count) \o " new likes on your content"
      [] type = "LIKE" ->
           "You received " \o ToString(count) \o " new comments on your video"
      [] OTHER ->
           "You have " \o ToString(count) \o " new notifications"

generateGroupedMessage(type, count) ==
    CASE type = "LIKE" ->
           "You received " \o ToString(count) \o " new likes on your content"
      [] type = "COMMENT" ->
           "You received " \o ToString(count) \o " new comments on your video"
      [] OTHER ->
           "You have " \o ToString(count) \o " new notifications"

(***************************************************************************)
(* groupSimilarNotifications(userId, newNotification)                      *)
(***************************************************************************)
\* Mutant: the filter forgets resourceId.
SimilarIds_NoResourceId(userId, newNotification, t) ==
    { i \in DOMAIN store :
        /\ store[i].recipient = userId
        /\ store[i].type = newNotification.type
        /\ store[i].resourceType = newNotification.resourceType
        /\ store[i].createdAt >= t - GroupWindowMs }

\* Mutant: the window is measured from the row's last update.
SimilarIds_ByUpdatedAt(userId, newNotification, t) ==
    { i \in DOMAIN store :
        /\ store[i].recipient = userId
        /\ store[i].type = newNotification.type
        /\ store[i].resourceType = newNotification.resourceType
        /\ store[i].resourceId = newNotification.resourceId
        /\ store[i].updatedAt >= t - GroupWindowMs }

\* The filter of Notification.findOne: the ids of the matching rows.
SimilarIds(userId, newNotification, t) ==
    { i \in DOMAIN store :
        /\ store[i].recipient = userId
        /\ store[i].type = newNotification.type
        /\ store[i].resourceType = newNotification.resourceType
        /\ store[i].resourceId = newNotification.resourceId
        /\ store[i].createdAt >= t - GroupWindowMs }

\* Mutant: a missing count is read as 0.
PriorCount_AbsentIsZero(similar) ==
    IF similar.data.count = NoCount THEN 0 ELSE similar.data.count

\* similar.data?.count || 1
PriorCount(similar) ==
    IF similar.data.count = NoCount \/ similar.data.count = 0
    THEN 1
    ELSE similar.data.count

\* Mutant: data is replaced by the count alone.
GroupedUpdate_CountOnly(row, similar, type, t) ==
    [row EXCEPT !.data = [count |-> PriorCount(similar) + 1, extra |-> Undefined],
                !.updatedAt = t,
                !.isRead = FALSE,
                !.message = generateGroupedMessage(type, PriorCount(similar) + 1)]

\* Mutant: the update leaves isRead as it was.
GroupedUpdate_KeepsRead(row, similar, type, t) ==
    [row EXCEPT !.data = [similar.data EXCEPT !.count = PriorCount(similar) + 1],
                !.updatedAt = t,
                !.message = generateGroupedMessage(type, PriorCount(similar) + 1)]

\* Mutant: the update writes the prior count back without adding 1.
GroupedUpdate_NoIncrement(row, similar, type, t) ==
    [row EXCEPT !.data = [similar.data EXCEPT !.count = PriorCount(similar)],
                !.updatedAt = t,
                !.isRead = FALSE,
                !.message = generateGroupedMessage(type, PriorCount(similar))]

\* The $set of findByIdAndUpdate, computed from the document findOne returned.
GroupedUpdate(row, similar, type, t) ==
    [row EXCEPT !.data = [similar.data EXCEPT !.count = PriorCount(similar) + 1],
                !.updatedAt = t,
                !.isRead = FALSE,
                !.message = generateGroupedMessage(type, PriorCount(similar) + 1)]

\* Mutant: a new row is stored as already delivered in the app.
NewRow_DeliveredInApp(newNotification, t) ==
    [recipient |-> newNotification.recipient,
     sender |-> newNotification.sender,
     type |-> newNotification.type,
     resourceType |-> newNotification.resourceType,
     resourceId |-> newNotification.resourceId,
     message |-> newNotification.message,
     isRead |-> FALSE,
     deliveryStatus |-> [inApp |-> TRUE, email |-> FALSE, push |-> FALSE],
     data |-> [newNotification.data EXCEPT !.count = 1],
     createdAt |-> t,
     updatedAt |-> t]

\* Mutant: a count carried by the candidate's data is kept.
NewRow_KeepsCount(newNotification, t) ==
    [recipient |-> newNotification.recipient,
     sender |-> newNotification.sender,
     type |-> newNotification.type,
     resourceType |-> newNotification.resourceType,
     resourceId |-> newNotification.resourceId,
     message |-> newNotification.message,
     isRead |-> FALSE,
     deliveryStatus |-> [inApp |-> FALSE, email |-> FALSE, push |-> FALSE],
     data |-> IF newNotification.data.count = NoCount
              THEN [newNotification.data EXCEPT !.count = 1]
              ELSE newNotification.data,
     createdAt |-> t,
     updatedAt |-> t]

\* Notification.create({...newNotification, data: {...newNotification.data, count: 1}})
\* with the schema's defaults and timestamps.
NewRow(newNotification, t) ==
    [recipient |-> newNotification.recipient,
     sender |-> newNotification.sender,
     type |-> newNotification.type,
     resourceType |-> newNotification.resourceType,
     resourceId |-> newNotification.resourceId,
     message |-> newNotification.message,
     isRead |-> FALSE,
     deliveryStatus |-> [inApp |-> FALSE, email |-> FALSE, push |-> FALSE],
     data |-> [newNotification.data EXCEPT !.count = 1],
     createdAt |-> t,
     updatedAt |-> t]

\* History of a completed call for the key of its candidate.
Completed(h, at) ==
    [n |-> h.n + 1,
     first |-> IF h.first = -1 \/ at < h.first THEN at ELSE h.first,
     last |-> IF at > h.last THEN at ELSE h.last]

\* The call up to its first await: the query is built from Date.now() and
\* findOne answers with one of the matching rows, or null.
GroupFind(p, newNotification) ==
    /\ pc[p] = "idle"
    /\ started < MaxEvents
    /\ LET userId == newNotification.recipient
           ids == SimilarIds(userId, newNotification, now)
       IN \E s \in (IF ids = {} THEN {Null}
                    ELSE { Found(i, store[i].data) : i \in ids }) :
            local' = [local EXCEPT ![p] =
                        [userId |-> userId, newNotification |-> newNotification,
                         similar |-> s, at |-> now]]
    /\ pc' = [pc EXCEPT ![p] = "found"]
    /\ started' = started + 1
    /\ UNCHANGED <<now, store, applied, hist, lastOp>>

\* if (similar): findByIdAndUpdate(similar._id, {$set: ...}, {new: true})
GroupUpdate(p) ==
    /\ pc[p] = "found"
    /\ local[p].similar.found
    /\ LET s == local[p].similar
           c == local[p].newNotification
       IN /\ store' = [store EXCEPT ![s.id] = GroupedUpdate(@, s, c.type, now)]
          /\ applied' = [applied EXCEPT ![s.id] = @ + 1]
          /\ hist' = [hist EXCEPT ![KeyOf(c)] = Completed(@, local[p].at)]
          /\ lastOp' = [kind |-> "update", id |-> s.id, key |-> KeyOf(c)]
    /\ pc' = [pc EXCEPT ![p] = "idle"]
    /\ local' = [local EXCEPT ![p] = NoLocal]
    /\ UNCHANGED <<now, started>>

\* No similar notification: Notification.create(...)
GroupInsert(p) ==
    /\ pc[p] = "found"
    /\ ~local[p].similar.found
    /\ LET c == local[p].newNotification
       IN /\ store' = Append(store, NewRow(c, now))
          /\ applied' = Append(applied, 1)
          /\ hist' = [hist EXCEPT ![KeyOf(c)] = Completed(@, local[p].at)]
          /\ lastOp' = [kind |-> "insert", id |-> Len(store) + 1, key |-> KeyOf(c)]
    /\ pc' = [pc EXCEPT ![p] = "idle"]
    /\ local' = [local EXCEPT ![p] = NoLocal]
    /\ UNCHANGED <<now, started>>

\* The clock advances.
Tick ==
    /\ now < MaxTicks * TickMs
    /\ now' = now + TickMs
    /\ UNCHANGED <<store, pc, local, started, applied, hist, lastOp>>

AllIdle == \A p \in Procs : pc[p] = "idle"

\* Notification.create(notification) by a writer that does not go through
\* groupSimilarNotifications: the schema's defaults and timestamps, and data
\* as it was given (none, or without a count, or with one).
CreateDirect(notification) ==
    /\ AllIdle
    /\ started < MaxEvents
    /\ store' = Append(store, [NewRow(notification, now) EXCEPT
                                 !.data = notification.data])
    /\ applied' = Append(applied, 0)
    /\ lastOp' = [kind |-> "direct", id |-> Len(store) + 1,
                  key |-> KeyOf(notification)]
    /\ started' = started + 1
    /\ UNCHANGED <<now, pc, local, hist>>

(***************************************************************************)
(* notificationPreferencesSchema                                           *)
(***************************************************************************)
Users == {"u1", "u2"}
\* The users whose preferences the model exercises.
Owners == {"u1"}
Channels == {"inApp", "email", "push", "sms"}
\* The keys of preferences.types.
TypeKeys == {"comments", "likes", "subscriptions"}
\* The types a caller may ask about: the keys above, and one with no entry.
ResolveTypes == TypeKeys \cup {"MENTION"}

Toggles(a, b, c, d) == [inApp |-> a, email |-> b, push |-> c, sms |-> d]

\* Mutant: the likes type delivers to email and push by default, like the others.
DefaultPreferences_LikesEverywhere ==
    [exists |-> TRUE,
     channels |-> Toggles(TRUE, TRUE, TRUE, FALSE),
     types |->
       [comments |-> [enabled |-> TRUE, channels |-> Toggles(TRUE, TRUE, TRUE, FALSE)],
        likes |-> [enabled |-> TRUE, channels |-> Toggles(TRUE, TRUE, TRUE, FALSE)],
        subscriptions |->
          [enabled |-> TRUE, channels |-> Toggles(TRUE, TRUE, TRUE, FALSE)]]]

\* A document created with the defaults of the schema.
DefaultPreferences ==
    [exists |-> TRUE,
     channels |-> Toggles(TRUE, TRUE, TRUE, FALSE),
     types |->
       [comments |-> [enabled |-> TRUE, channels |-> Toggles(TRUE, TRUE, TRUE, FALSE)],
        likes |-> [enabled |-> TRUE, channels |-> Toggles(TRUE, FALSE, FALSE, FALSE)],
        subscriptions |->
          [enabled |-> TRUE, channels |-> Toggles(TRUE, TRUE, TRUE, FALSE)]]]

\* No document (null / undefined): what a failed or empty read hands over.
NoPreferences == [DefaultPreferences EXCEPT !.exists = FALSE]

\* What a JavaScript call gives back: a value, or a thrown TypeError.
Returned(b) == [threw |-> FALSE, value |-> b]
Threw == [threw |-> TRUE, value |-> FALSE]

(***************************************************************************)
(* shouldDeliverToChannel(preferences, notificationType, channel)          *)
(***************************************************************************)
\* preferences.types[notificationType]?.enabled, undefined read as falsy
TypeEnabled(preferences, notificationType) ==
    /\ notificationType \in DOMAIN preferences.types
    /\ preferences.types[notificationType].enabled

\* preferences.channels[channel], undefined read as falsy
ChannelEnabled(preferences, channel) ==
    /\ channel \in DOMAIN preferences.channels
    /\ preferences.channels[channel]

\* preferences.types[notificationType]?.channels[channel] ?? false
TypeChannelEnabled(preferences, notificationType, channel) ==
    /\ notificationType \in DOMAIN preferences.types
    /\ channel \in DOMAIN preferences.types[notificationType].channels
    /\ preferences.types[notificationType].channels[channel]

\* Mutant: the answer also depends on the last answer given (a channel that
\* was just granted is denied the next time).
shouldDeliverToChannel_Throttled(preferences, notificationType, channel) ==
    IF ~preferences.exists THEN Threw
    ELSE IF call.valid /\ call.channel = channel /\ call.outcome = Returned(TRUE)
    THEN Returned(FALSE)
    ELSE IF ~TypeEnabled(preferences, notificationType) THEN Returned(FALSE)
    ELSE IF ~ChannelEnabled(preferences, channel) THEN Returned(FALSE)
    ELSE Returned(TypeChannelEnabled(preferences, notificationType, channel))

\* Mutant: the global channel check is left out.
shouldDeliverToChannel_NoGlobalCheck(preferences, notificationType, channel) ==
    IF ~preferences.exists THEN Threw
    ELSE IF ~TypeEnabled(preferences, notificationType) THEN Returned(FALSE)
    ELSE Returned(TypeChannelEnabled(preferences, notificationType, channel))

\* Mutant: the type's entry is read without optional chaining, so a type
\* that has no entry throws.
shouldDeliverToChannel_NoChaining(preferences, notificationType, channel) ==
    IF ~preferences.exists THEN Threw
    ELSE IF notificationType \notin DOMAIN preferences.types THEN Threw
    ELSE IF ~TypeEnabled(preferences, notificationType) THEN Returned(FALSE)
    ELSE IF ~ChannelEnabled(preferences, channel) THEN Returned(FALSE)
    ELSE Returned(TypeChannelEnabled(preferences, notificationType, channel))

shouldDeliverToChannel(preferences, notificationType, channel) ==
    IF ~preferences.exists THEN Threw   \* preferences.types of undefined
    ELSE IF ~TypeEnabled(preferences, notificationType) THEN Returned(FALSE)
    ELSE IF ~ChannelEnabled(preferences, channel) THEN Returned(FALSE)
    ELSE Returned(TypeChannelEnabled(preferences, notificationType, channel))

(***************************************************************************)
(* The preference resolver and the owner's writes.                         *)
(***************************************************************************)
NoCall == [user |-> Undefined, type |-> Undefined, channel |-> Undefined,
           readable |-> FALSE, created |-> FALSE, outcome |-> Returned(FALSE),
           valid |-> FALSE, again |-> FALSE, differs |-> FALSE]

\* The document the resolver reads for user u: nothing when the collection
\* cannot be read, the stored document, or a new one with the defaults.
ReadPreferences(u) ==
    IF ~prefStoreUp THEN NoPreferences
    ELSE IF prefs[u].exists THEN prefs[u]
    ELSE DefaultPreferences

\* The collection after the read: a missing document has been created.
AfterRead(u) ==
    IF prefStoreUp /\ ~prefs[u].exists
    THEN [prefs EXCEPT ![u] = DefaultPreferences]
    ELSE prefs

\* The call repeats the last one: same arguments, both read the record, and
\* no write to the preference records in between.
Repeats(u, t, c) ==
    /\ call.valid /\ call.readable /\ prefStoreUp
    /\ call.user = u /\ call.type = t /\ call.channel = c

\* resolve(userId, type, channel)
Resolve(u, t, c) ==
    LET outcome == shouldDeliverToChannel(ReadPreferences(u), t, c)
    IN /\ prefs' = AfterRead(u)
       /\ call' = [user |-> u, type |-> t, channel |-> c,
                   readable |-> prefStoreUp,
                   created |-> prefStoreUp /\ ~prefs[u].exists,
                   outcome |-> outcome,
                   valid |-> TRUE,
                   again |-> Repeats(u, t, c),
                   differs |-> Repeats(u, t, c) /\ outcome # call.outcome]
       /\ UNCHANGED <<prefStoreUp, prefWrites>>

\* The owner switches one field of the own record (created first when missing).
WritePreferences(u, doc) ==
    /\ prefStoreUp
    /\ prefWrites < MaxPrefWrites
    /\ prefs' = [prefs EXCEPT ![u] = doc]
    /\ prefWrites' = prefWrites + 1
    /\ call' = [call EXCEPT !.valid = FALSE]
    /\ UNCHANGED prefStoreUp

SetChannel(u, c) ==
    WritePreferences(u, [ReadPreferences(u) EXCEPT !.channels[c] = ~@])

SetTypeEnabled(u, t) ==
    WritePreferences(u, [ReadPreferences(u) EXCEPT !.types[t].enabled = ~@])

SetTypeChannel(u, t, c) ==
    WritePreferences(u, [ReadPreferences(u) EXCEPT !.types[t].channels[c] = ~@])

\* The preference collection becomes unreachable, or reachable again.
PrefStoreFlip ==
    /\ prefStoreUp' = ~prefStoreUp
    /\ UNCHANGED <<prefs, prefWrites, call>>

(***************************************************************************)
(* The delivery router: deliver(notification).  For each of inApp, email   *)
(* and push it asks the resolver and, if permitted, calls the adapter of   *)
(* the channel and records deliveryStatus on success.                     *)
(***************************************************************************)
ChannelOrder == <<"inApp", "email", "push">>
AdapterResults == {"ok", "failed", "timeout"}

\* The key of preferences.types for a notification type.
PrefKey(type) ==
    CASE type = "COMMENT" -> "comments"
      [] type = "LIKE" -> "likes"
      [] type = "SUBSCRIPTION" -> "subscriptions"
      [] OTHER -> type

\* The candidates the router is exercised with: a type whose defaults permit
\* email and push (COMMENT) and one whose defaults do not (LIKE).
DeliverCandidates ==
    { c \in Candidates :
        c.recipient \in Owners /\ c.resourceType = "VIDEO" /\ c.resourceId = "v1" }

NoStatus == [inApp |-> FALSE, email |-> FALSE, push |-> FALSE]
NoDelivery == [id |-> 0, next |-> 0, before |-> NoStatus, masterOff |-> {},
               permitted |-> {}, invoked |-> {}, failed |-> {}]

\* Mutant: the router gives up on the remaining channels once an adapter
\* has failed or timed out.
RouterStops_AfterFailure(d) == d.failed # {}

\* Whether the router gives up on the remaining channels of delivery d: it
\* attempts every permitted channel, whatever happened on the others.
RouterStops(d) == FALSE

DeliveryDone == dlv.next = 0 \/ dlv.next > Len(ChannelOrder)

\* The master toggles of user u as stored (the defaults when not yet created).
StoredChannels(u) ==
    IF prefs[u].exists THEN prefs[u].channels ELSE DefaultPreferences.channels

\* One event enters the pipeline: the grouping engine persists it first.
PipelineFind(newNotification) ==
    /\ AllIdle
    /\ DeliveryDone
    /\ started = deliveries
    /\ started < MaxDeliveries
    /\ GroupFind(1, newNotification)

\* deliver(notification), for the row the grouping engine has just written.
DeliverBegin ==
    /\ AllIdle
    /\ DeliveryDone
    /\ deliveries < started
    /\ dlv' = [id |-> lastOp.id, next |-> 1,
               before |-> store[lastOp.id].deliveryStatus,
               masterOff |-> {}, permitted |-> {}, invoked |-> {},
               failed |-> {}]
    /\ deliveries' = deliveries + 1
    /\ UNCHANGED <<gvars, pvars>>

\* The next channel of the delivery: resolve, and if permitted call the
\* adapter, which succeeds, fails or times out; success is recorded.
DeliverChannel(result) ==
    /\ ~DeliveryDone
    /\ LET c == ChannelOrder[dlv.next]
           n == store[dlv.id]
           u == n.recipient
           outcome == shouldDeliverToChannel(ReadPreferences(u), PrefKey(n.type), c)
           permitted == outcome = Returned(TRUE)
           invoke == permitted /\ ~RouterStops(dlv)
       IN /\ prefs' = AfterRead(u)
          /\ invoke \/ result = "failed"
          /\ store' = IF invoke /\ result = "ok"
                      THEN [store EXCEPT ![dlv.id].deliveryStatus[c] = TRUE]
                      ELSE store
          /\ dlv' = [dlv EXCEPT
                       !.next = @ + 1,
                       !.masterOff = IF StoredChannels(u)[c] THEN @ ELSE @ \cup {c},
                       !.permitted = IF permitted THEN @ \cup {c} ELSE @,
                       !.invoked = IF invoke THEN @ \cup {c} ELSE @,
                       !.failed = IF invoke /\ result # "ok" THEN @ \cup {c} ELSE @]
    /\ UNCHANGED <<now, pc, local, started, applied, hist, lastOp>>
    /\ UNCHANGED <<prefStoreUp, prefWrites, call, deliveries>>

DeliverInit ==
    /\ dlv = NoDelivery
    /\ deliveries = 0

(***************************************************************************)
(* websocket-server.js: the ws server, its registry of connections and     *)
(* sendNotificationToUser.  WebSocket.OPEN is read as the constant of the  *)
(* runtime's WebSocket class.                                              *)
(***************************************************************************)
Socks == 1 .. NumSockets
\* A token is the user id it was signed for, or one that jwt.verify rejects.
Tokens == Users \cup {"bad"}

\* A socket not yet accepted; userId is the handler's local (let userId = null).
NoSocket == [readyState |-> "NONE", userId |-> "null", listening |-> FALSE,
             errored |-> FALSE, welcomed |-> FALSE]
NoSent == [made |-> FALSE, id |-> 0, user |-> Undefined, open |-> {},
           outcome |-> Returned(FALSE), to |-> <<>>]

\* The notifications published to the real-time layer.
FanoutCandidates ==
    { c \in DeliverCandidates : c.type = "COMMENT" }

\* The registry history after operation op of socket s.
Logged(op, s, changed) ==
    LET e == [op |-> op, sock |-> s, changed |-> changed]
    IN IF Len(wsLog) < 2 THEN Append(wsLog, e) ELSE <<wsLog[2], e>>

\* Mutant: the entry of userId is removed if there is one, and otherwise the
\* entry added last (an index of -1 handed to a removal by position).
Deregister_ByPosition(reg, userId) ==
    IF reg[userId] # 0 THEN [reg EXCEPT ![userId] = 0]
    ELSE [k \in DOMAIN reg |->
            IF reg[k] # 0 /\ \A j \in DOMAIN reg : reg[j] <= reg[k]
            THEN 0 ELSE reg[k]]

\* clients.delete(userId)
Deregister(reg, userId) == [reg EXCEPT ![userId] = 0]

\* wss.on("connection"): verify the token, register, greet, attach the
\* handlers; a rejected token closes the socket with 1008 and attaches none.
\* Mutant: the welcome message is sent before the token is verified.
Connection_GreetsFirst(s, token) ==
    /\ socks[s].readyState = "NONE"
    /\ \A t \in Socks : t < s => socks[t].readyState # "NONE"
    /\ IF token \in Users
       THEN /\ clients' = [clients EXCEPT ![token] = s]
            /\ socks' = [socks EXCEPT ![s] =
                           [readyState |-> "OPEN", userId |-> token,
                            listening |-> TRUE, errored |-> FALSE,
                            welcomed |-> TRUE]]
            /\ wsLog' = Logged("connect", s, clients' # clients)
            /\ wsSent' = NoSent
       ELSE /\ socks' = [socks EXCEPT ![s].readyState = "CLOSING",
                                      ![s].welcomed = TRUE]
            /\ UNCHANGED <<clients, wsLog, wsSent>>

Connection(s, token) ==
    /\ socks[s].readyState = "NONE"
    /\ \A t \in Socks : t < s => socks[t].readyState # "NONE"
    /\ IF token \in Users
       THEN /\ clients' = [clients EXCEPT ![token] = s]
            /\ socks' = [socks EXCEPT ![s] =
                           [readyState |-> "OPEN", userId |-> token,
                            listening |-> TRUE, errored |-> FALSE,
                            welcomed |-> TRUE]]
            /\ wsLog' = Logged("connect", s, clients' # clients)
            /\ wsSent' = NoSent
       ELSE /\ socks' = [socks EXCEPT ![s].readyState = "CLOSING"]
            /\ UNCHANGED <<clients, wsLog, wsSent>>

\* The closing handshake of an open socket begins; no handler has run yet.
PeerClosing(s) ==
    /\ socks[s].readyState = "OPEN"
    /\ socks' = [socks EXCEPT ![s].readyState = "CLOSING"]
    /\ UNCHANGED <<clients, wsLog, wsSent>>

\* ws.on("error"): clients.delete(userId); the socket is on its way down.
OnError(s) ==
    /\ socks[s].listening
    /\ ~socks[s].errored
    /\ socks[s].readyState \in {"OPEN", "CLOSING"}
    /\ clients' = Deregister(clients, socks[s].userId)
    /\ socks' = [socks EXCEPT ![s].readyState = "CLOSING", ![s].errored = TRUE]
    /\ wsLog' = Logged("error", s, clients' # clients)
    /\ wsSent' = NoSent

\* The socket has closed; ws.on("close"), where attached:
\* if (userId) clients.delete(userId).
OnClose(s) ==
    /\ socks[s].readyState \in {"OPEN", "CLOSING"}
    /\ socks' = [socks EXCEPT ![s].readyState = "CLOSED"]
    /\ IF socks[s].listening
       THEN /\ clients' = IF socks[s].userId # "null"
                          THEN Deregister(clients, socks[s].userId)
                          ELSE clients
            /\ wsLog' = Logged("close", s, clients' # clients)
            /\ wsSent' = NoSent
       ELSE UNCHANGED <<clients, wsLog, wsSent>>

\* Mutant: the readyState of the registered socket is not looked at.
sendNotificationToUser_AnyState(userId) ==
    LET client == clients[userId]
    IN IF client # 0
       THEN [to |-> <<client>>, outcome |-> Returned(TRUE)]
       ELSE [to |-> <<>>, outcome |-> Returned(FALSE)]

\* Mutant: the message is sent twice to the registered open socket.
sendNotificationToUser_Twice(userId) ==
    LET client == clients[userId]
    IN IF client # 0 /\ socks[client].readyState = "OPEN"
       THEN [to |-> <<client, client>>, outcome |-> Returned(TRUE)]
       ELSE [to |-> <<>>, outcome |-> Returned(FALSE)]

\* sendNotificationToUser(userId, notification): the sockets it sends the
\* notification to, and what it returns.
sendNotificationToUser(userId) ==
    LET client == clients[userId]
    IN IF client # 0 /\ socks[client].readyState = "OPEN"
       THEN [to |-> <<client>>, outcome |-> Returned(TRUE)]
       ELSE [to |-> <<>>, outcome |-> Returned(FALSE)]

\* A stored notification is published to its recipient.
Publish(i) ==
    /\ i \in DOMAIN store
    /\ LET userId == store[i].recipient
           r == sendNotificationToUser(userId)
       IN wsSent' = [made |-> TRUE, id |-> i, user |-> userId,
                     open |-> { s \in Socks : /\ clients[userId] = s
                                              /\ socks[s].readyState = "OPEN" },
                     outcome |-> r.outcome, to |-> r.to]
    /\ UNCHANGED <<clients, socks, wsLog>>

\* groupSimilarNotifications run to completion by the only handler in
\* flight, when no similar row exists: the candidate is created.
PersistNew(c) ==
    /\ AllIdle
    /\ started < MaxEvents
    /\ SimilarIds(c.recipient, c, now) = {}
    /\ store' = Append(store, NewRow(c, now))
    /\ applied' = Append(applied, 1)
    /\ hist' = [hist EXCEPT ![KeyOf(c)] = Completed(@, now)]
    /\ lastOp' = [kind |-> "insert", id |-> Len(store) + 1, key |-> KeyOf(c)]
    /\ started' = started + 1
    /\ UNCHANGED <<now, pc, local>>

WsInit ==
    /\ clients = [u \in Users |-> 0]
    /\ socks = [s \in Socks |-> NoSocket]
    /\ wsLog = <<>>
    /\ wsSent = NoSent

(***************************************************************************)
(* server.js with the Redis adapter: every server process runs the same    *)
(* socket.io server; a socket joins the room of its user on the process    *)
(* that accepted it, and io.to(room).emit(...) reaches the sockets of the  *)
(* room on the emitting process at once and, through the adapter, those    *)
(* on every other process.  got counts the copies of the current           *)
(* broadcast a socket has received.                                        *)
(***************************************************************************)
Servers == {"A", "B"}

NoIoSocket == [state |-> "NONE", server |-> "A", userId |-> Undefined, got |-> 0]
ClosedIoSocket == [NoIoSocket EXCEPT !.state = "CLOSED"]
NoBroadcast == [made |-> FALSE, user |-> Undefined, from |-> "A", live |-> {}]

\* Mutant: the event is emitted to every socket of the process (io.emit).
RoomMembers_Everyone(p, userId) ==
    UNION { rooms[p][u] : u \in Users }

\* Mutant: without the backplane nothing is emitted, not even on the
\* process itself.
RoomMembers_NeedsBackplane(p, userId) ==
    IF backplaneUp THEN rooms[p][userId] ELSE {}

\* io.to(`user:${userId}`) on process p: the sockets of the room.
RoomMembers(p, userId) == rooms[p][userId]

\* The processes the adapter will hand a broadcast of process p to: all the
\* others; published while Redis is unavailable, the broadcast is lost, or
\* kept by the client until Redis is back.
RemoteTargets(p) ==
    IF backplaneUp THEN {Servers \ {p}} ELSE {{}, Servers \ {p}}

\* The sockets after an emit to the set to of sockets.
Emitted(socketsNow, to) ==
    [s \in Socks |-> IF s \in to THEN [socketsNow[s] EXCEPT !.got = @ + 1]
                     ELSE socketsNow[s]]

\* io.on("connection") on process p:
\* const userId = socket.handshake.auth.userId; if (userId) socket.join(...)
IoConnection(s, p, userId) ==
    /\ ioSocks[s].state = "NONE"
    /\ \A t \in Socks : t < s => ioSocks[t].state # "NONE"
    /\ ioSocks' = [ioSocks EXCEPT ![s] =
                     [state |-> "OPEN", server |-> p, userId |-> userId, got |-> 0]]
    /\ rooms' = IF userId # Undefined
                THEN [rooms EXCEPT ![p][userId] = @ \cup {s}]
                ELSE rooms
    /\ UNCHANGED <<pending, ioPub>>

\* The socket disconnects: socket.io takes it out of its rooms.
IoDisconnect(s) ==
    /\ ioSocks[s].state = "OPEN"
    /\ ioSocks' = [ioSocks EXCEPT ![s] = ClosedIoSocket]
    /\ rooms' = [p \in Servers |-> [u \in Users |-> rooms[p][u] \ {s}]]
    /\ ioPub' = [ioPub EXCEPT !.live = @ \ {s}]
    /\ UNCHANGED pending

\* sendNotificationToUser(userId, notification) called on process p:
\* io.to(`user:${userId}`).emit("notification", notification)
IoSendNotificationToUser(p, userId) ==
    /\ pending = {}
    /\ ioSocks' = Emitted([s \in Socks |-> [ioSocks[s] EXCEPT !.got = 0]],
                          RoomMembers(p, userId))
    /\ pending' \in RemoteTargets(p)
    /\ ioPub' = [made |-> TRUE, user |-> userId, from |-> p,
                 live |-> UNION { rooms[q][userId] : q \in Servers }]
    /\ UNCHANGED rooms

\* The adapter of process q receives the broadcast and emits it to the
\* sockets of the room on q.
AdapterReceive(q) ==
    /\ backplaneUp
    /\ q \in pending
    /\ ioSocks' = Emitted(ioSocks, RoomMembers(q, ioPub.user))
    /\ pending' = pending \ {q}
    /\ UNCHANGED <<rooms, ioPub>>

\* Redis becomes unavailable (a broadcast on its way may be lost), or
\* available again.
BackplaneFlip ==
    /\ backplaneUp' = ~backplaneUp
    /\ pending' \in (IF backplaneUp THEN {pending, {}} ELSE {pending})
    /\ downPub' = (backplaneUp /\ downPub)
    /\ UNCHANGED <<ioSocks, rooms, ioPub, downRows>>

IoInit ==
    /\ ioSocks = [s \in Socks |-> NoIoSocket]
    /\ rooms = [p \in Servers |-> [u \in Users |-> {}]]
    /\ pending = {}
    /\ ioPub = NoBroadcast
    /\ backplaneUp = TRUE
    /\ downRows = {}
    /\ downPub = FALSE

(***************************************************************************)
(* events/eventEmitter.js, events/notificationEventHandlers.js and         *)
(* controllers/comment.controller.js.  An id is a JavaScript value: a      *)
(* string (ref 0), or an ObjectId instance (ref: which object it is), as   *)
(* the _id and owner fields of the Mongoose documents are.                 *)
(***************************************************************************)
EventTypes == {"NEW_COMMENT", "NEW_SUBSCRIPTION"}

Str(v) == [value |-> v, ref |-> 0]
Obj(v, r) == [value |-> v, ref |-> r]
NoId == Str(Undefined)

\* a === b: strings by value, objects by reference.
StrictEqual(a, b) ==
    IF a.ref = 0 /\ b.ref = 0 THEN a.value = b.value ELSE a.ref = b.ref

\* The owner of each stored video; a videoId outside has no document.
VideoOwner == [v1 |-> "u1"]
VideoIds == {"v1", "v0"}

NoEvent == [type |-> Undefined, videoId |-> Undefined, authorId |-> NoId,
            videoOwnerId |-> NoId, commentText |-> Undefined,
            subscriberId |-> NoId, subscriberName |-> Undefined,
            channelId |-> NoId]
CommentEvent(videoId, authorId, videoOwnerId, commentText) ==
    [NoEvent EXCEPT !.type = "NEW_COMMENT", !.videoId = videoId,
                    !.authorId = authorId, !.videoOwnerId = videoOwnerId,
                    !.commentText = commentText]
SubscriptionEvent(subscriberId, subscriberName, channelId) ==
    [NoEvent EXCEPT !.type = "NEW_SUBSCRIPTION", !.subscriberId = subscriberId,
                    !.subscriberName = subscriberName, !.channelId = channelId]

\* Events emitted by producers that hand over plain string ids.
DirectEvents ==
    { CommentEvent("v1", Str("u2"), Str("u1"), "Nice"),
      CommentEvent("v1", Str("u1"), Str("u1"), "Nice"),
      SubscriptionEvent(Str("u2"), "u2", Str("u1")) }

\* NEW_COMMENT events that lack a field the listener reads: the comment's
\* text, or the owner of the video.
MalformedEvents ==
    { CommentEvent("v1", Str("u2"), Str("u1"), Undefined),
      CommentEvent("v1", Str("u2"), NoId, "Nice") }

\* What the runtime is after a promise of a listener has rejected with
\* nobody to handle it (the listeners have no catch and emit drops their
\* promises): it goes on, or the process is ended, as the runtime's
\* policy for unhandled rejections has it.
AfterRejection(cause) == {"up", cause}

\* Listeners other than those of registerEventHandlers: one that returns,
\* one that throws, and an async one whose promise rejects.
OtherHandlers == {"syncOk", "syncThrow", "asyncReject"}

\* What calling a listener does before it returns to emit: whether it
\* throws, and the calls of createNotification it has started.
Ran(calls) == [threw |-> FALSE, calls |-> calls]
Thrown == [threw |-> TRUE, calls |-> <<>>]

\* The listener of NEW_COMMENT (an async function: it cannot throw to emit).
\* The quoted comment text is shorter than 50 characters, so that
\* substring(0, 50) is all of it.
onNewComment(data) ==
    IF ~StrictEqual(data.authorId, data.videoOwnerId) /\ data.commentText # Undefined
    THEN Ran(<<Cand(data.videoOwnerId.value, data.authorId.value, "COMMENT",
                    "VIDEO", data.videoId,
                    "New comment on your video: \"" \o data.commentText \o "...\"",
                    NoData)>>)
    ELSE Ran(<<>>)

\* The listener of NEW_SUBSCRIPTION (async as well).
onNewSubscription(data) ==
    Ran(<<Cand(data.channelId.value, data.subscriberId.value, "SUBSCRIPTION",
               "USER", data.subscriberId.value,
               data.subscriberName \o " subscribed to your channel!", NoData)>>)

\* Whether the promise of listener h rejects before its first await:
\* commentText.substring(...) of a missing commentText is a TypeError.
RejectsAtOnce(h, data) ==
    \/ h = "asyncReject"
    \/ /\ h = "onNewComment"
       /\ ~StrictEqual(data.authorId, data.videoOwnerId)
       /\ data.commentText = Undefined

Invoke(h, data) ==
    CASE h = "onNewComment" -> onNewComment(data)
      [] h = "onNewSubscription" -> onNewSubscription(data)
      [] h = "syncThrow" -> Thrown
      [] OTHER -> Ran(<<>>)

\* Mutant: the listeners are called from the last registered to the first.
RECURSIVE emit_LastFirst(_, _, _)
emit_LastFirst(ls, data, k) ==
    IF k > Len(ls) THEN [invoked |-> <<>>, threw |-> FALSE, calls |-> <<>>]
    ELSE LET h == ls[Len(ls) + 1 - k]
             r == Invoke(h, data)
         IN IF r.threw
            THEN [invoked |-> <<h>>, threw |-> TRUE, calls |-> <<>>]
            ELSE LET rest == emit_LastFirst(ls, data, k + 1)
                 IN [invoked |-> <<h>> \o rest.invoked,
                     threw |-> rest.threw,
                     calls |-> r.calls \o rest.calls]

\* EventEmitter.prototype.emit: the listeners are called one after the
\* other, in the order of registration, with no try around the call: what
\* a listener throws leaves emit at once; the promise an async listener
\* returns is dropped.
RECURSIVE emit(_, _, _)
emit(ls, data, k) ==
    IF k > Len(ls) THEN [invoked |-> <<>>, threw |-> FALSE, calls |-> <<>>]
    ELSE LET r == Invoke(ls[k], data)
         IN IF r.threw
            THEN [invoked |-> <<ls[k]>>, threw |-> TRUE, calls |-> <<>>]
            ELSE LET rest == emit(ls, data, k + 1)
                 IN [invoked |-> <<ls[k]>> \o rest.invoked,
                     threw |-> rest.threw,
                     calls |-> r.calls \o rest.calls]

\* emitEvent(eventType, data), and the history of the call.
emitEvent(data) ==
    LET r == emit(listeners[data.type], data, 1)
    IN /\ emits < MaxEmits
       /\ emits' = emits + 1
       /\ pendingCreates' = pendingCreates \o r.calls
       /\ busSent' = [made |-> TRUE, data |-> data,
                      n |-> Len(listeners[data.type]),
                      invoked |-> r.invoked, threw |-> r.threw,
                      calls |-> r.calls]
       /\ UNCHANGED listeners

\* registerEventHandlers(): eventEmitter.on(...) for each of the two types.
registerEventHandlers ==
    /\ \A t \in EventTypes : Len(listeners[t]) < MaxListeners
    /\ listeners' = [listeners EXCEPT
                       !["NEW_COMMENT"] = Append(@, "onNewComment"),
                       !["NEW_SUBSCRIPTION"] = Append(@, "onNewSubscription")]
    /\ UNCHANGED <<pendingCreates, emits, busSent, req, comments>>

\* eventEmitter.on(NEW_COMMENT, h) for another listener h.
Subscribe(h) ==
    /\ Len(listeners["NEW_COMMENT"]) < MaxListeners
    /\ listeners' = [listeners EXCEPT !["NEW_COMMENT"] = Append(@, h)]
    /\ UNCHANGED <<pendingCreates, emits, busSent, req, comments>>

\* A producer emits an event.
EmitEvent(data) ==
    /\ emitEvent(data)
    /\ UNCHANGED <<req, comments>>

\* groupSimilarNotifications run to completion by the only handler in
\* flight, when a similar row exists: the row is updated.
PersistUpdate(c) ==
    /\ AllIdle
    /\ started < MaxEvents
    /\ \E i \in SimilarIds(c.recipient, c, now) :
          /\ store' = [store EXCEPT
                         ![i] = GroupedUpdate(@, Found(i, store[i].data), c.type, now)]
          /\ applied' = [applied EXCEPT ![i] = @ + 1]
          /\ lastOp' = [kind |-> "update", id |-> i, key |-> KeyOf(c)]
    /\ hist' = [hist EXCEPT ![KeyOf(c)] = Completed(@, now)]
    /\ started' = started + 1
    /\ UNCHANGED <<now, pc, local>>

\* The oldest awaited call of NotificationService.createNotification
\* settles: the notification is created, or merged into the similar row,
\* or the call rejects (and with it the promise of the handler); without a
\* recipient, which the schema requires, it rejects.
CreateNotification(ok) ==
    /\ pendingCreates # <<>>
    /\ pendingCreates' = Tail(pendingCreates)
    /\ ok => Head(pendingCreates).recipient # Undefined
    /\ IF ok
       THEN PersistNew(Head(pendingCreates)) \/ PersistUpdate(Head(pendingCreates))
       ELSE UNCHANGED gvars
    /\ UNCHANGED <<listeners, emits, busSent, req, comments>>

NoRequest == [pc |-> "idle", userId |-> Undefined, videoId |-> Undefined,
              commentId |-> 0, status |-> 0]

\* addComment up to its first await: Comment.create stores the comment, or
\* rejects and the catch block answers 500.
AddCommentCreate(userId, videoId, ok) ==
    /\ req.pc # "created"
    /\ emits < MaxEmits
    /\ Cardinality(comments) < MaxEmits
    /\ IF ok
       THEN /\ comments' = comments \cup {Cardinality(comments) + 1}
            /\ req' = [pc |-> "created", userId |-> userId, videoId |-> videoId,
                       commentId |-> Cardinality(comments) + 1, status |-> 0]
       ELSE /\ req' = [pc |-> "done", userId |-> userId, videoId |-> videoId,
                       commentId |-> 0, status |-> 500]
            /\ UNCHANGED comments
    /\ UNCHANGED <<listeners, pendingCreates, emits, busSent>>

\* addComment from Video.findById on: the lookup rejects, or gives null
\* (video.owner then throws), or the event is emitted with req.user._id and
\* video.owner, two ObjectId instances; what is thrown is answered with
\* 500, otherwise the answer is 201 and the comment.
AddCommentFind(ok) ==
    /\ req.pc = "created"
    /\ IF ok /\ req.videoId \in DOMAIN VideoOwner
       THEN /\ emitEvent(CommentEvent(req.videoId, Obj(req.userId, 1),
                                      Obj(VideoOwner[req.videoId], 2), "Nice"))
            /\ req' = [req EXCEPT !.pc = "done",
                                  !.status = IF busSent'.threw THEN 500 ELSE 201]
       ELSE /\ req' = [req EXCEPT !.pc = "done", !.status = 500]
            /\ UNCHANGED <<listeners, pendingCreates, emits, busSent>>
    /\ UNCHANGED comments

BusInit ==
    /\ listeners = [t \in EventTypes |-> <<>>]
    /\ pendingCreates = <<>>
    /\ emits = 0
    /\ busSent = [made |-> FALSE, data |-> NoEvent, n |-> 0, invoked |-> <<>>,
                  threw |-> FALSE, calls |-> <<>>]
    /\ req = NoRequest
    /\ comments = {}
    /\ runtime = "up"

(***************************************************************************)
(* The read-status queries and mutations of the Notification collection.   *)
(***************************************************************************)
NoRead == [kind |-> "none", user |-> Undefined, id |-> 0, total |-> 0,
           found |-> FALSE]

\* The notifications the feed of the model is filled with: two keys of one
\* user and one of the other.
ReadCandidates ==
    { c \in Candidates : c.resourceType = "VIDEO" /\ c.resourceId = "v1" }

RowsOf(userId) == { i \in DOMAIN store : store[i].recipient = userId }

\* getUnreadCount(userId): countDocuments({recipient: userId, isRead: false})
getUnreadCount(userId) ==
    Cardinality({ i \in DOMAIN store :
                    store[i].recipient = userId /\ ~store[i].isRead })

\* The update {isRead: true} applied to a row (timestamps: true records the
\* time of the update).
NoRegroup == [id |-> 0, wasRead |-> FALSE, unread |-> 0]

ReadUpdate(row, t) == [row EXCEPT !.isRead = TRUE, !.updatedAt = t]

\* Mutant: updateOne for updateMany: only the first matching row is updated.
MarkedAllAsRead_First(userId, t) ==
    [i \in DOMAIN store |->
        IF /\ store[i].recipient = userId /\ ~store[i].isRead
           /\ \A j \in 1 .. i - 1 : ~(store[j].recipient = userId /\ ~store[j].isRead)
        THEN ReadUpdate(store[i], t)
        ELSE store[i]]

\* Mutant: deleteMany for updateMany: the matching rows are removed.
MarkedAllAsRead_Deletes(userId, t) ==
    SelectSeq(store, LAMBDA row : ~(row.recipient = userId /\ ~row.isRead))

\* The collection after updateMany({recipient: userId, isRead: false}, {isRead: true}).
MarkedAllAsRead(userId, t) ==
    [i \in DOMAIN store |->
        IF store[i].recipient = userId /\ ~store[i].isRead
        THEN ReadUpdate(store[i], t)
        ELSE store[i]]

\* markAllAsRead(userId)
MarkAllAsRead(userId) ==
    /\ store' = MarkedAllAsRead(userId, now)
    /\ readOp' = [kind |-> "markAll", user |-> userId, id |-> 0,
                  total |-> Cardinality(RowsOf(userId)), found |-> FALSE]
    /\ regroup' = NoRegroup
    /\ UNCHANGED <<now, pc, local, started, applied, hist, lastOp>>

\* Mutant: the filter is the _id alone.
MarkAsRead_AnyRecipient(notificationId, userId) ==
    LET found == notificationId \in DOMAIN store
    IN /\ store' = IF found
                   THEN [store EXCEPT ![notificationId] = ReadUpdate(@, now)]
                   ELSE store
       /\ readOp' = [kind |-> "markOne", user |-> userId, id |-> notificationId,
                     total |-> Cardinality(RowsOf(userId)), found |-> found]
       /\ regroup' = NoRegroup
       /\ UNCHANGED <<now, pc, local, started, applied, hist, lastOp>>

\* markAsRead(notificationId, userId):
\* findOneAndUpdate({_id: notificationId, recipient: userId}, {isRead: true}, {new: true})
MarkAsRead(notificationId, userId) ==
    LET found == /\ notificationId \in DOMAIN store
                 /\ store[notificationId].recipient = userId
    IN /\ store' = IF found
                   THEN [store EXCEPT ![notificationId] = ReadUpdate(@, now)]
                   ELSE store
       /\ readOp' = [kind |-> "markOne", user |-> userId, id |-> notificationId,
                     total |-> Cardinality(RowsOf(userId)), found |-> found]
       /\ regroup' = NoRegroup
       /\ UNCHANGED <<now, pc, local, started, applied, hist, lastOp>>

\* Mutant: the filter forgets the recipient.
MarkedVisibleAsRead_AnyRecipient(notificationIds, userId, t) ==
    [i \in DOMAIN store |->
        IF i \in notificationIds /\ ~store[i].isRead
        THEN ReadUpdate(store[i], t)
        ELSE store[i]]

\* The collection after updateMany({_id: {$in: notificationIds},
\* recipient: userId, isRead: false}, {isRead: true}).
MarkedVisibleAsRead(notificationIds, userId, t) ==
    [i \in DOMAIN store |->
        IF i \in notificationIds /\ store[i].recipient = userId /\ ~store[i].isRead
        THEN ReadUpdate(store[i], t)
        ELSE store[i]]

\* markVisibleAsRead(notificationIds, userId)
MarkVisibleAsRead(notificationIds, userId) ==
    /\ store' = MarkedVisibleAsRead(notificationIds, userId, now)
    /\ readOp' = [kind |-> "markVisible", user |-> userId, id |-> 0,
                  total |-> Cardinality(RowsOf(userId)), found |-> FALSE]
    /\ regroup' = NoRegroup
    /\ UNCHANGED <<now, pc, local, started, applied, hist, lastOp>>

\* A notification arrives: created, or merged into the similar row.
Arrive(c) ==
    /\ PersistNew(c) \/ PersistUpdate(c)
    /\ readOp' = IF readOp.user = c.recipient THEN NoRead ELSE readOp
    /\ regroup' = IF lastOp'.kind = "update"
                  THEN [id |-> lastOp'.id, wasRead |-> store[lastOp'.id].isRead,
                        unread |-> getUnreadCount(c.recipient)]
                  ELSE NoRegroup

ReadInit ==
    /\ readOp = NoRead
    /\ regroup = NoRegroup

(***************************************************************************)
(* The notification feed: getUserNotifications.  A result is the sequence  *)
(* of the ids of the rows returned (populate and lean do not select).      *)
(***************************************************************************)
\* Notification.find({recipient: userId}).sort({createdAt: -1}): the rows of
\* the user, newest first; rows of equal createdAt come in any order.
FindSorted(userId) ==
    { f \in [1 .. Cardinality(RowsOf(userId)) -> RowsOf(userId)] :
        /\ \A a, b \in DOMAIN f : a # b => f[a] # f[b]
        /\ \A a, b \in DOMAIN f :
              a < b => store[f[a]].createdAt >= store[f[b]].createdAt }

\* Mutant: a page too many is skipped.
SkipLimit_PageTooFar(found, page, limit) ==
    LET skip == page * limit
    IN [k \in 1 .. (IF Len(found) - skip < limit
                    THEN (IF Len(found) > skip THEN Len(found) - skip ELSE 0)
                    ELSE limit) |-> found[skip + k]]

\* .skip((page - 1) * limit).limit(limit) of a sorted result.
SkipLimit(found, page, limit) ==
    LET skip == (page - 1) * limit
    IN [k \in 1 .. (IF Len(found) - skip < limit
                    THEN (IF Len(found) > skip THEN Len(found) - skip ELSE 0)
                    ELSE limit) |-> found[skip + k]]

\* getUserNotifications(userId, page, limit): the results it can return.
getUserNotifications(userId, page, limit) ==
    { SkipLimit(found, page, limit) : found \in FindSorted(userId) }

(***************************************************************************)
(* The login rate limiter: rateLimit({windowMs, max, keyGenerator,         *)
(* handler}) of express-rate-limit with its memory store.  The store       *)
(* counts the hits of a key in a fixed window; depending on the version    *)
(* of the library the window of a key starts at the key's first request    *)
(* ("perKey") or the windows of all keys start together every windowMs     *)
(* from the creation of the store ("global").                              *)
(***************************************************************************)
IPs == {"ip1", "ip2"}
Windowings == {"perKey", "global"}

NoEntry == [hits |-> 0, resetTime |-> 0]
NoAnswer == [sent |-> FALSE, logged |-> FALSE, retryAfter |-> 0, now |-> 0]
NoLogin == [n |-> 0, ip |-> Undefined, at |-> 0, limited |-> FALSE,
              resetTime |-> 0, answer |-> NoAnswer]

\* Mutant: every request is counted under one key.
keyGenerator_OneKey(ip) == "ip1"

\* keyGenerator: req => req.ip
keyGenerator(ip) == ip

\* Math.ceil(a / b) for b > 0
Ceil(a, b) == -((-a) \div b)

\* Mutant: the remaining time without the lower limit of one minute.
timeRemaining_NoFloor(resetTime, t) == Ceil(resetTime - t, MsPerMinute)

\* Math.max(1, Math.ceil((req.rateLimit.resetTime - now) / 60000))
timeRemaining(resetTime, t) ==
    LET m == Ceil(resetTime - t, MsPerMinute)
    IN IF m > 1 THEN m ELSE 1

\* The entry of a key as the store sees it at time t: the stored one while
\* its window lasts, a fresh one afterwards.
Current(e, t, m) ==
    IF m = "perKey"
    THEN IF e.hits = 0 \/ t >= e.resetTime
         THEN [hits |-> 0, resetTime |-> t + windowMs]
         ELSE e
    ELSE LET end == ((t \div windowMs) + 1) * windowMs
         IN IF e.resetTime # end THEN [hits |-> 0, resetTime |-> end] ELSE e

\* handler(req, res, next, options): the log entry is written inside a
\* try/catch, then the remaining time is computed from the time read after
\* that, and the response is sent.
handler(resetTime, t, logOk) ==
    [sent |-> TRUE, logged |-> logOk,
     retryAfter |-> timeRemaining(resetTime, t), now |-> t]

\* One login request from ip goes through loginLimiter: the store counts
\* it; up to max hits in the window it is handed on (next), beyond that
\* the limit handler answers it.
LoginRequest(ip, m, logOk, delay) ==
    /\ lastReq.n < MaxRequests
    /\ windowing \in {"unset", m}
    /\ windowing' = m
    /\ LET key == keyGenerator(ip)
           e == Current(limiter[key], clock, m)
           totalHits == e.hits + 1
           limited == totalHits > max
       IN /\ limited \/ (logOk /\ delay = 0)
          /\ limiter' = [limiter EXCEPT ![key] = [e EXCEPT !.hits = totalHits]]
          /\ passedAt' = IF limited THEN passedAt
                         ELSE [passedAt EXCEPT ![ip] = Append(@, clock)]
          /\ lastReq' = [n |-> lastReq.n + 1, ip |-> ip, at |-> clock,
                         limited |-> limited, resetTime |-> e.resetTime,
                         answer |-> IF limited
                                    THEN handler(e.resetTime, clock + delay, logOk)
                                    ELSE NoAnswer]
    /\ UNCHANGED clock

\* Time passes on the HTTP server.
LimiterTick ==
    /\ clock < MaxLimitTicks * LimitTickMs
    /\ clock' = clock + LimitTickMs
    /\ UNCHANGED <<limiter, windowing, passedAt, lastReq>>

LimiterInit ==
    /\ limiter = [k \in IPs |-> NoEntry]
    /\ windowing = "unset"
    /\ clock = 0
    /\ passedAt = [ip \in IPs |-> <<>>]
    /\ lastReq = NoLogin

(***************************************************************************)
(* asyncHandler.js: the wrapper calls the request handler, wraps what it   *)
(* returns in Promise.resolve and attaches .catch((err) => next(err)).     *)
(* A request handler resolves, rejects, returns a plain value, or (when    *)
(* it is not an async function) throws before it returns anything; it may  *)
(* call next itself.                                                       *)
(***************************************************************************)
Calls == 1 .. MaxCalls
HandlerKinds == {"resolves", "rejects", "value", "throws"}
Reasons == {"ApiError", "Error"}

NoHandlerCall == [phase |-> "none", kind |-> "none", reason |-> Undefined,
                  handlerNext |-> FALSE, wrapperNext |-> <<>>]

\* Mutant: next is attached to both outcomes (.then(next, next)).
WrapperNext_BothOutcomes(kind, reason) ==
    IF kind = "rejects" THEN <<reason>> ELSE <<Undefined>>

\* .catch((err) => next(err)): the calls of next the wrapper makes once
\* the promise has settled.
WrapperNext(kind, reason) ==
    IF kind = "rejects" THEN <<reason>> ELSE <<>>

\* (req, res, next) => { Promise.resolve(requesthandler(req, res, next))... }
\* up to its return: a handler that throws before returning makes the
\* wrapper raise; otherwise the wrapper returns with the promise pending.
asyncHandler(r, kind, reason, callsNext) ==
    /\ wrapped[r].phase = "none"
    /\ \A q \in Calls : q < r => wrapped[q].phase # "none"
    /\ (reason = Undefined) <=> (kind \in {"resolves", "value"})
    /\ wrapped' = [wrapped EXCEPT ![r] =
                   [phase |-> IF kind = "throws" THEN "raised" ELSE "returned",
                    kind |-> kind, reason |-> reason,
                    handlerNext |-> callsNext, wrapperNext |-> <<>>]]

\* The promise of call r settles and its reactions run.
Settle(r) ==
    /\ wrapped[r].phase = "returned"
    /\ wrapped' = [wrapped EXCEPT ![r].phase = "settled",
                              ![r].wrapperNext =
                                  WrapperNext(wrapped[r].kind, wrapped[r].reason)]

HandlerInit == wrapped = [r \in Calls |-> NoHandlerCall]

PrefInit ==
    /\ prefs = [u \in Users |-> NoPreferences]
    /\ prefStoreUp = TRUE
    /\ prefWrites = 0
    /\ call = NoCall

GroupInit ==
    /\ now = 0
    /\ store = <<>>
    /\ pc = [p \in Procs |-> "idle"]
    /\ local = [p \in Procs |-> NoLocal]
    /\ started = 0
    /\ applied = <<>>
    /\ hist = [k \in Keys |-> NoHist]
    /\ lastOp = NoOp

vars == <<gvars, pvars, dvars, xvars>>

Init ==
    /\ GroupInit /\ PrefInit /\ DeliverInit /\ WsInit /\ IoInit /\ BusInit /\ ReadInit
    /\ LimiterInit /\ HandlerInit

\* Sequential use: a call starts only when no other call is in flight.
NextSeq ==
    \/ \E c \in Candidates : AllIdle /\ GroupFind(1, c) /\ UNCHANGED <<pvars, dvars, xvars>>
    \/ GroupUpdate(1) /\ UNCHANGED <<pvars, dvars, xvars>>
    \/ GroupInsert(1) /\ UNCHANGED <<pvars, dvars, xvars>>
    \/ Tick /\ UNCHANGED <<pvars, dvars, xvars>>

SpecSeq == Init /\ [][NextSeq]_vars

\* Sequential use on a collection that other writers also create rows in.
NextDirect ==
    \/ \E c \in Candidates : CreateDirect(c) /\ UNCHANGED <<pvars, dvars, xvars>>
    \/ \E c \in Candidates : AllIdle /\ GroupFind(1, c) /\ UNCHANGED <<pvars, dvars, xvars>>
    \/ GroupUpdate(1) /\ UNCHANGED <<pvars, dvars, xvars>>
    \/ GroupInsert(1) /\ UNCHANGED <<pvars, dvars, xvars>>

SpecDirect == Init /\ [][NextDirect]_vars

\* Concurrent use: calls interleave at every await.
Next ==
    \/ \E p \in Procs, c \in Candidates : GroupFind(p, c) /\ UNCHANGED <<pvars, dvars, xvars>>
    \/ \E p \in Procs : GroupUpdate(p) /\ UNCHANGED <<pvars, dvars, xvars>>
    \/ \E p \in Procs : GroupInsert(p) /\ UNCHANGED <<pvars, dvars, xvars>>
    \/ Tick /\ UNCHANGED <<pvars, dvars, xvars>>

Spec == Init /\ [][Next]_vars

\* The preference resolver alone, with the owners writing their records.
NextPref ==
    \/ \E u \in Owners, t \in ResolveTypes, c \in Channels :
          Resolve(u, t, c) /\ UNCHANGED <<gvars, dvars, xvars>>
    \/ \E u \in Owners, c \in Channels :
          SetChannel(u, c) /\ UNCHANGED <<gvars, dvars, xvars>>
    \/ \E u \in Owners, t \in TypeKeys :
          SetTypeEnabled(u, t) /\ UNCHANGED <<gvars, dvars, xvars>>
    \/ \E u \in Owners, t \in TypeKeys, c \in Channels :
          SetTypeChannel(u, t, c) /\ UNCHANGED <<gvars, dvars, xvars>>
    \/ PrefStoreFlip /\ UNCHANGED <<gvars, dvars, xvars>>

SpecPref == Init /\ [][NextPref]_vars

\* The pipeline of one handler: group, persist, deliver; with the owner
\* writing the preferences and the preference collection going away.
NextDeliver ==
    \/ \E c \in DeliverCandidates : PipelineFind(c) /\ UNCHANGED <<pvars, dvars, xvars>>
    \/ GroupUpdate(1) /\ UNCHANGED <<pvars, dvars, xvars>>
    \/ GroupInsert(1) /\ UNCHANGED <<pvars, dvars, xvars>>
    \/ DeliverBegin /\ UNCHANGED xvars
    \/ \E r \in AdapterResults : DeliverChannel(r) /\ UNCHANGED xvars
    \/ \E u \in Owners, c \in Channels :
          SetChannel(u, c) /\ UNCHANGED <<gvars, dvars, xvars>>
    \/ \E u \in Owners, t \in TypeKeys :
          SetTypeEnabled(u, t) /\ UNCHANGED <<gvars, dvars, xvars>>
    \/ \E u \in Owners, t \in TypeKeys, c \in Channels :
          SetTypeChannel(u, t, c) /\ UNCHANGED <<gvars, dvars, xvars>>
    \/ PrefStoreFlip /\ UNCHANGED <<gvars, dvars, xvars>>

SpecDeliver == Init /\ [][NextDeliver]_vars

\* The ws server: sockets connect, fail and close while stored notifications
\* are published to their recipients.
NextWs ==
    \/ \E c \in FanoutCandidates :
          PersistNew(c) /\ UNCHANGED <<pvars, dvars, wvars, fvars, bvars, rvars, hvars, uvars, lvars, avars>>
    \/ \E s \in Socks, token \in Tokens :
          Connection(s, token) /\ UNCHANGED <<gvars, pvars, dvars, fvars, bvars, rvars, hvars, uvars, lvars, avars>>
    \/ \E s \in Socks : PeerClosing(s) /\ UNCHANGED <<gvars, pvars, dvars, fvars, bvars, rvars, hvars, uvars, lvars, avars>>
    \/ \E s \in Socks : OnError(s) /\ UNCHANGED <<gvars, pvars, dvars, fvars, bvars, rvars, hvars, uvars, lvars, avars>>
    \/ \E s \in Socks : OnClose(s) /\ UNCHANGED <<gvars, pvars, dvars, fvars, bvars, rvars, hvars, uvars, lvars, avars>>
    \/ \E i \in DOMAIN store : Publish(i) /\ UNCHANGED <<gvars, pvars, dvars, fvars, bvars, rvars, hvars, uvars, lvars, avars>>

SpecWs == Init /\ [][NextWs]_vars

\* The socket.io cluster: sockets come and go on either process while
\* notifications are emitted from either process.
NextIo ==
    \/ \E s \in Socks, p \in Servers, u \in Users \cup {Undefined} :
          IoConnection(s, p, u) /\ UNCHANGED <<gvars, pvars, dvars, wvars, bvars, rvars, hvars, uvars, lvars, avars>>
    \/ \E s \in Socks : IoDisconnect(s) /\ UNCHANGED <<gvars, pvars, dvars, wvars, bvars, rvars, hvars, uvars, lvars, avars>>
    \/ \E p \in Servers, u \in Users :
          IoSendNotificationToUser(p, u) /\ UNCHANGED <<gvars, pvars, dvars, wvars, bvars, rvars, hvars, uvars, lvars, avars>>
    \/ \E q \in Servers : AdapterReceive(q) /\ UNCHANGED <<gvars, pvars, dvars, wvars, bvars, rvars, hvars, uvars, lvars, avars>>

SpecIo == Init /\ [][NextIo]_vars

\* The socket.io cluster with Redis going away and coming back, while
\* notifications are persisted and emitted.
NextIoDegraded ==
    \/ \E c \in FanoutCandidates :
          /\ PersistNew(c)
          /\ downRows' = IF backplaneUp THEN downRows ELSE downRows \cup {Len(store) + 1}
          /\ UNCHANGED <<pvars, dvars, wvars, fvars, bvars, rvars, backplaneUp, downPub, uvars, lvars, avars>>
    \/ \E s \in Socks, p \in Servers, u \in Users :
          IoConnection(s, p, u) /\ UNCHANGED <<gvars, pvars, dvars, wvars, bvars, rvars, hvars, uvars, lvars, avars>>
    \/ \E s \in Socks : IoDisconnect(s) /\ UNCHANGED <<gvars, pvars, dvars, wvars, bvars, rvars, hvars, uvars, lvars, avars>>
    \/ \E p \in Servers, u \in Owners :
          /\ IoSendNotificationToUser(p, u)
          /\ downPub' = ~backplaneUp
          /\ UNCHANGED <<gvars, pvars, dvars, wvars, bvars, rvars, backplaneUp, downRows, uvars, lvars, avars>>
    \/ \E q \in Servers : AdapterReceive(q) /\ UNCHANGED <<gvars, pvars, dvars, wvars, bvars, rvars, hvars, uvars, lvars, avars>>
    \/ BackplaneFlip /\ UNCHANGED <<gvars, pvars, dvars, wvars, bvars, rvars, uvars, lvars, avars>>

SpecIoDegraded == Init /\ [][NextIoDegraded]_vars

\* The event bus: listeners are registered, producers emit events, and the
\* calls of createNotification the handlers await settle.
NextBus ==
    \/ registerEventHandlers /\ UNCHANGED <<gvars, pvars, dvars, wvars, fvars, rvars, hvars, uvars, lvars, avars>>
    \/ \E h \in OtherHandlers :
          Subscribe(h) /\ UNCHANGED <<gvars, pvars, dvars, wvars, fvars, rvars, hvars, uvars, lvars, avars>>
    \/ \E e \in DirectEvents :
          EmitEvent(e) /\ UNCHANGED <<gvars, pvars, dvars, wvars, fvars, rvars, hvars, uvars, lvars, avars>>
    \/ \E ok \in BOOLEAN :
          CreateNotification(ok) /\ UNCHANGED <<pvars, dvars, wvars, fvars, rvars, hvars, uvars, lvars, avars>>

SpecBus == Init /\ [][NextBus]_vars

\* The event bus with producers that emit well-formed and malformed
\* events, in a process that lives as long as the runtime lets it.
NextMalformed ==
    \/ /\ runtime = "up"
       /\ registerEventHandlers
       /\ UNCHANGED <<gvars, pvars, dvars, wvars, fvars, rvars, hvars, uvars, lvars, avars>>
    \/ \E e \in DirectEvents \cup MalformedEvents :
          /\ runtime = "up"
          /\ EmitEvent(e)
          /\ runtime' \in (IF \E k \in DOMAIN busSent'.invoked :
                                  RejectsAtOnce(busSent'.invoked[k], e)
                           THEN AfterRejection("payload")
                           ELSE {"up"})
          /\ UNCHANGED <<gvars, pvars, dvars, wvars, fvars, rvars, hvars, lvars, avars>>
    \/ \E ok \in BOOLEAN :
          /\ runtime = "up"
          /\ CreateNotification(ok)
          /\ runtime' \in (IF ok THEN {"up"}
                           ELSE IF Head(pendingCreates).recipient = Undefined
                           THEN AfterRejection("payload")
                           ELSE AfterRejection("store"))
          /\ UNCHANGED <<pvars, dvars, wvars, fvars, rvars, hvars, lvars, avars>>

SpecMalformed == Init /\ [][NextMalformed]_vars

\* The login route behind loginLimiter, with clients at two addresses.
NextLimiter ==
    \/ \E ip \in IPs, m \in Windowings, logOk \in BOOLEAN,
            delay \in {0, MaxLogDelayMs} :
          /\ LoginRequest(ip, m, logOk, delay)
          /\ UNCHANGED <<gvars, pvars, dvars, wvars, fvars, bvars, rvars, hvars, uvars, avars>>
    \/ LimiterTick
          /\ UNCHANGED <<gvars, pvars, dvars, wvars, fvars, bvars, rvars, hvars, uvars, avars>>

SpecLimiter == Init /\ [][NextLimiter]_vars

\* Routes wrapped in asyncHandler.
NextHandler ==
    \/ \E r \in Calls, kind \in HandlerKinds, reason \in Reasons \cup {Undefined},
            callsNext \in BOOLEAN :
          /\ asyncHandler(r, kind, reason, callsNext)
          /\ UNCHANGED <<gvars, pvars, dvars, wvars, fvars, bvars, rvars, hvars, uvars, lvars>>
    \/ \E r \in Calls :
          /\ Settle(r)
          /\ UNCHANGED <<gvars, pvars, dvars, wvars, fvars, bvars, rvars, hvars, uvars, lvars>>

SpecHandler == Init /\ [][NextHandler]_vars

\* The comment controller with the handlers of registerEventHandlers.
NextComment ==
    \/ registerEventHandlers /\ UNCHANGED <<gvars, pvars, dvars, wvars, fvars, rvars, hvars, uvars, lvars, avars>>
    \/ \E u \in Users, v \in VideoIds, ok \in BOOLEAN :
          AddCommentCreate(u, v, ok) /\ UNCHANGED <<gvars, pvars, dvars, wvars, fvars, rvars, hvars, uvars, lvars, avars>>
    \/ \E ok \in BOOLEAN :
          AddCommentFind(ok) /\ UNCHANGED <<gvars, pvars, dvars, wvars, fvars, rvars, hvars, uvars, lvars, avars>>
    \/ \E e \in DirectEvents :
          EmitEvent(e) /\ UNCHANGED <<gvars, pvars, dvars, wvars, fvars, rvars, hvars, uvars, lvars, avars>>
    \/ \E ok \in BOOLEAN :
          CreateNotification(ok) /\ UNCHANGED <<pvars, dvars, wvars, fvars, rvars, hvars, uvars, lvars, avars>>

SpecComment == Init /\ [][NextComment]_vars

\* The feed of the two users: notifications arrive and are marked read.
NextRead ==
    \/ \E c \in ReadCandidates :
          Arrive(c) /\ UNCHANGED <<pvars, dvars, wvars, fvars, bvars, hvars, uvars, lvars, avars>>
    \/ \E u \in Users :
          MarkAllAsRead(u) /\ UNCHANGED <<pvars, dvars, wvars, fvars, bvars, hvars, uvars, lvars, avars>>
    \/ \E i \in 1 .. Len(store) + 1, u \in Users :
          MarkAsRead(i, u) /\ UNCHANGED <<pvars, dvars, wvars, fvars, bvars, hvars, uvars, lvars, avars>>

SpecRead == Init /\ [][NextRead]_vars

\* The candidates the notification centre is exercised with: one
\* notification key for each user.
MarkCandidates == { c \in ReadCandidates : c.type = "LIKE" }

\* The ids a notification centre can show: a page of consecutive ids of
\* the collection, whoever their recipients are, possibly with some that
\* do not exist.
Visible == { a .. a + MaxLimit - 1 : a \in 1 .. Len(store) }

\* Every writer of the notification collection: notifications arrive and are
\* grouped over time, are delivered, and are marked read by either user.
NextStore ==
    \/ \E c \in MarkCandidates :
          Arrive(c) /\ UNCHANGED <<pvars, dvars, wvars, fvars, bvars, hvars, uvars, lvars, avars>>
    \/ DeliverBegin /\ UNCHANGED xvars
    \/ \E r \in AdapterResults : DeliverChannel(r) /\ UNCHANGED xvars
    \/ \E u \in Users :
          MarkAllAsRead(u) /\ UNCHANGED <<pvars, dvars, wvars, fvars, bvars, hvars, uvars, lvars, avars>>
    \/ \E i \in 1 .. Len(store) + 1, u \in Users :
          MarkAsRead(i, u) /\ UNCHANGED <<pvars, dvars, wvars, fvars, bvars, hvars, uvars, lvars, avars>>
    \/ \E ids \in Visible, u \in Users :
          MarkVisibleAsRead(ids, u) /\ UNCHANGED <<pvars, dvars, wvars, fvars, bvars, hvars, uvars, lvars, avars>>

SpecStore == Init /\ [][NextStore]_vars

\* Notifications arrive during one grouping window while either user opens
\* the notification centre or marks everything read.
NextMark ==
    \/ \E c \in ReadCandidates :
          Arrive(c) /\ UNCHANGED <<pvars, dvars, wvars, fvars, bvars, hvars, uvars, lvars, avars>>
    \/ now < GroupWindowMs /\ Tick /\ UNCHANGED <<pvars, dvars, xvars>>
    \/ \E u \in Users :
          MarkAllAsRead(u) /\ UNCHANGED <<pvars, dvars, wvars, fvars, bvars, hvars, uvars, lvars, avars>>
    \/ \E ids \in Visible, u \in Users :
          MarkVisibleAsRead(ids, u) /\ UNCHANGED <<pvars, dvars, wvars, fvars, bvars, hvars, uvars, lvars, avars>>

SpecMark == Init /\ [][NextMark]_vars

\* The candidates the feed is exercised with: three keys of one recipient.
FeedCandidates ==
    { c \in Candidates : c.recipient \in Owners /\ c.resourceType = "VIDEO" }

\* Notifications are created over time and pushed to their recipient, who
\* is away, then connected, then closing; the feed is there to be fetched.
NextFeed ==
    \/ \E c \in FeedCandidates :
          PersistNew(c) /\ UNCHANGED <<pvars, dvars, wvars, fvars, bvars, rvars, hvars, uvars, lvars, avars>>
    \/ Tick /\ UNCHANGED <<pvars, dvars, xvars>>
    \/ \E s \in Socks, token \in Owners :
          clients[token] = 0 /\ Connection(s, token) /\ UNCHANGED <<gvars, pvars, dvars, fvars, bvars, rvars, hvars, uvars, lvars, avars>>
    \/ \E s \in Socks : PeerClosing(s) /\ UNCHANGED <<gvars, pvars, dvars, fvars, bvars, rvars, hvars, uvars, lvars, avars>>
    \/ \E i \in DOMAIN store : Publish(i) /\ UNCHANGED <<gvars, pvars, dvars, fvars, bvars, rvars, hvars, uvars, lvars, avars>>

SpecFeed == Init /\ [][NextFeed]_vars

(***************************************************************************)
(* Properties of the grouping engine.                                      *)
(***************************************************************************)
RowsOfKey(k) == { i \in DOMAIN store : KeyOf(store[i]) = k }

\* The completed calls for key k all queried within one grouping window.
InOneWindow(k) ==
    /\ hist[k].n >= 1
    /\ hist[k].last - hist[k].first <= GroupWindowMs

SeenKeys == { k \in Keys : hist[k].n >= 1 }

\* All completed calls, of every key, queried within one grouping window.
AllInOneWindow ==
    \A k1, k2 \in SeenKeys : hist[k2].last - hist[k1].first <= GroupWindowMs

\* C1: sequential calls for one key inside one grouping window leave exactly
\* one row for the key, and its data.count is the number of calls.
C1_SequentialGrouping ==
    \A k \in Keys :
        InOneWindow(k) =>
            /\ Cardinality(RowsOfKey(k)) = 1
            /\ \A i \in RowsOfKey(k) : store[i].data.count = hist[k].n

C1_Witness ==
    \E k \in Keys :
        /\ InOneWindow(k)
        /\ hist[k].n = 3
        /\ \E i \in RowsOfKey(k) : store[i].data.count = 3

\* C2: no state has more than one row of a grouping key whose createdAt lies
\* inside the current grouping window.
C2_OneRowPerKeyInWindow ==
    \A k \in Keys :
        Cardinality({ i \in RowsOfKey(k) :
                        store[i].createdAt >= now - GroupWindowMs }) <= 1

\* C3: once every call has completed, the data.count of a row is the number
\* of calls that inserted or updated it (no increment is lost).
C3_NoLostIncrement ==
    AllIdle => \A i \in DOMAIN store : store[i].data.count = applied[i]

\* C4: for calls inside one window the number of rows is the number of
\* distinct grouping keys among them, and a call updates only a row of its
\* own key.
C4_DistinctKeysDistinctRows ==
    /\ AllInOneWindow => Cardinality(DOMAIN store) = Cardinality(SeenKeys)
    /\ lastOp.kind # "none" => KeyOf(store[lastOp.id]) = lastOp.key

C4_Witness ==
    /\ AllInOneWindow
    /\ Cardinality(SeenKeys) = 2
    /\ Len(store) = 2
    /\ started = 3
    /\ lastOp.kind = "update"
    /\ \E i \in DOMAIN store :
          /\ i # lastOp.id
          /\ Cardinality({ j \in 1 .. 4 : KeyOf(store[i])[j] # lastOp.key[j] }) = 1

\* The templates of the claim, written out for the counts the model reaches.
Numeral(k) ==
    CASE k = 1 -> "1" [] k = 2 -> "2" [] k = 3 -> "3" [] k = 4 -> "4"
      [] k = 5 -> "5" [] k = 6 -> "6" [] k = 7 -> "7" [] k = 8 -> "8"
      [] OTHER -> "?"

ClaimedMessage(type, k) ==
    IF type = "LIKE"
    THEN "You received " \o Numeral(k) \o " new likes on your content"
    ELSE IF type = "COMMENT"
    THEN "You received " \o Numeral(k) \o " new comments on your video"
    ELSE "You have " \o Numeral(k) \o " new notifications"

\* C5: after the k-th (k >= 2) in-window call for a key, the message of its
\* row is the template of its type rendered with k.
C5_GroupedMessageReflectsCount ==
    \A k \in Keys :
        (InOneWindow(k) /\ hist[k].n >= 2) =>
            \A i \in RowsOfKey(k) :
                /\ store[i].data.count = hist[k].n
                /\ store[i].message = ClaimedMessage(store[i].type, hist[k].n)

\* Three LIKE events on one video: one row, count 3, "3" in the message.
C5_Witness ==
    \E i \in DOMAIN store :
        /\ store[i].type = "LIKE"
        /\ store[i].resourceType = "VIDEO"
        /\ hist[KeyOf(store[i])].n = 3
        /\ InOneWindow(KeyOf(store[i]))
        /\ Len(store) = 1
        /\ store[i].data.count = 3
        /\ store[i].message = "You received 3 new likes on your content"

(***************************************************************************)
(* Properties of the preference resolver.                                  *)
(***************************************************************************)
CallMade == call.user # Undefined

\* The permission as the specification states it, read field by field.
ClaimedPermission(p, t, c) ==
    IF t \notin TypeKeys THEN FALSE
    ELSE (p.types[t].enabled = TRUE) /\ (p.channels[c] = TRUE)
            /\ (p.types[t].channels[c] = TRUE)

\* C6: shouldDeliverToChannel returns true exactly when the type is enabled,
\* the master toggle of the channel is on and the type's override for the
\* channel is on, and false otherwise: for the record each call has read,
\* and for every stored record, type and channel.
C6_PreferenceFormula ==
    /\ (call.valid /\ call.readable) =>
          call.outcome = Returned(ClaimedPermission(prefs[call.user], call.type,
                                                    call.channel))
    /\ \A u \in Users, t \in ResolveTypes, c \in Channels :
          prefs[u].exists =>
            shouldDeliverToChannel(prefs[u], t, c)
              = Returned(ClaimedPermission(prefs[u], t, c))

\* A type that is off by default on a channel is granted once its override is on.
C6_Witness ==
    /\ call.valid /\ call.readable
    /\ call.type = "likes" /\ call.channel = "email"
    /\ call.outcome = Returned(TRUE)

\* A resolver step leaves the preference records as they are, or creates the
\* missing record of the user with the defaults.
ResolveFrame ==
    \/ prefs' = prefs
    \/ \E u \in Users :
          /\ ~prefs[u].exists
          /\ prefs' = [prefs EXCEPT ![u] = DefaultPreferences]

DefaultAnswer(t, c) ==
    \/ t \in {"comments", "subscriptions"} /\ c \in {"inApp", "email", "push"}
    \/ t = "likes" /\ c = "inApp"

\* C9 as stated: with a lazily created default record every type is enabled
\* and permitted on inApp, email and push, and no type on sms.
C9_DefaultsPermitAllButSms ==
    (call.valid /\ call.created /\ call.type \in TypeKeys) =>
        /\ prefs[call.user].types[call.type].enabled
        /\ call.outcome = Returned(call.channel # "sms")

\* C9 as amended: with a lazily created default record every configured type
\* is enabled; comments and subscriptions are permitted on inApp, email and
\* push, likes on inApp only, and no type on sms.
C9_Defaults ==
    (call.valid /\ call.created /\ call.type \in TypeKeys) =>
        /\ \A t \in TypeKeys : prefs[call.user].types[t].enabled
        /\ prefs[call.user].channels = Toggles(TRUE, TRUE, TRUE, FALSE)
        /\ call.outcome = Returned(DefaultAnswer(call.type, call.channel))

C9_Witness ==
    /\ call.valid /\ call.created
    /\ call.type = "likes" /\ call.channel = "push"
    /\ call.outcome = Returned(FALSE)

\* C10: when the preference record cannot be read, the resolver answers
\* "not permitted" and raises nothing.
C10_FailsClosed ==
    (CallMade /\ ~call.readable) => call.outcome = Returned(FALSE)

(***************************************************************************)
(* Properties of the delivery router.                                      *)
(***************************************************************************)
\* C7: when the recipient's master email toggle is off at the time the
\* router handles the email channel of a notification, that delivery leaves
\* deliveryStatus.email.delivered as it was (and calls no email adapter),
\* whatever the type and its email override.
C7_GlobalOptOut ==
    "email" \in dlv.masterOff =>
        /\ store[dlv.id].deliveryStatus.email = dlv.before.email
        /\ "email" \notin dlv.invoked

\* The master email toggle is off, the type and its email override are on,
\* and the same delivery has delivered on another channel.
C7_Witness ==
    /\ DeliveryDone
    /\ "email" \in dlv.masterOff
    /\ LET n == store[dlv.id]
       IN /\ prefs[n.recipient].types[PrefKey(n.type)].enabled
          /\ prefs[n.recipient].types[PrefKey(n.type)].channels.email
          /\ n.deliveryStatus.inApp
          /\ ~n.deliveryStatus.email

\* C11: in one delivery every permitted channel has its adapter invoked,
\* whatever the adapters of the other channels did; a channel that was
\* delivered before or during the delivery stays delivered when another
\* channel's adapter fails or times out; and a failed channel is not marked.
C11_ChannelIndependence ==
    /\ dlv.invoked = dlv.permitted
    /\ dlv.next # 0 =>
          \A c \in {"inApp", "email", "push"} :
              /\ (dlv.before[c] \/ c \in dlv.invoked \ dlv.failed)
                    => store[dlv.id].deliveryStatus[c]
              /\ (c \in dlv.failed /\ ~dlv.before[c])
                    => ~store[dlv.id].deliveryStatus[c]

\* All three channels permitted: inApp fails, email is delivered after that
\* failure, push fails after email was recorded.
C11_Witness ==
    /\ DeliveryDone
    /\ dlv.permitted = {"inApp", "email", "push"}
    /\ dlv.failed = {"inApp", "push"}
    /\ dlv.before = NoStatus
    /\ store[dlv.id].deliveryStatus = [NoStatus EXCEPT !.email = TRUE]

(***************************************************************************)
(* Properties of the ws server.                                            *)
(***************************************************************************)
\* C12: a notification published to a user who has no registered open
\* connection raises nothing, is sent to no connection, is reported as not
\* delivered (false), and its deliveryStatus.inApp.delivered stays false.
C12_OfflineRecipient ==
    (wsSent.made /\ wsSent.open = {}) =>
        /\ wsSent.outcome = Returned(FALSE)
        /\ wsSent.to = <<>>
        /\ ~store[wsSent.id].deliveryStatus.inApp

\* The recipient's registered socket was closing when the notification was
\* published, and another user's socket was open.
C12_Witness ==
    /\ wsSent.made /\ wsSent.open = {}
    /\ wsSent.outcome = Returned(FALSE)
    /\ \E s \in Socks :
          /\ clients[wsSent.user] = s
          /\ socks[s].readyState = "CLOSING"
    /\ \E s \in Socks :
          /\ socks[s].userId \notin {wsSent.user, "null"}
          /\ socks[s].readyState = "OPEN"

\* The registry holds socket s under the user it authenticated as.
Registered(s) ==
    /\ socks[s].userId \in DOMAIN clients
    /\ clients[socks[s].userId] = s

\* C14: after two connections of one user, with no disconnect between them,
\* both are registered for the user, and a notification then published to
\* the user is sent to both (while both are open).
C14_MultipleConnections ==
    (/\ Len(wsLog) = 2
     /\ wsLog[1].op = "connect" /\ wsLog[2].op = "connect"
     /\ socks[wsLog[1].sock].userId = socks[wsLog[2].sock].userId
     /\ socks[wsLog[1].sock].readyState = "OPEN"
     /\ socks[wsLog[2].sock].readyState = "OPEN")
    => /\ Registered(wsLog[1].sock)
       /\ Registered(wsLog[2].sock)
       /\ (wsSent.made /\ wsSent.user = socks[wsLog[1].sock].userId) =>
             \A c \in {wsLog[1].sock, wsLog[2].sock} :
                 \E k \in DOMAIN wsSent.to : wsSent.to[k] = c

\* C15: a second disconnect of the same socket ('close' after 'error'), with
\* no registry operation between the two, leaves the registry as the first
\* left it.
C15_DisconnectIdempotent ==
    (/\ Len(wsLog) = 2
     /\ wsLog[1].op \in {"error", "close"}
     /\ wsLog[2].op \in {"error", "close"}
     /\ wsLog[1].sock = wsLog[2].sock)
    => ~wsLog[2].changed

\* 'error' removed the socket's entry, 'close' followed on the same socket,
\* and another user's connection is still registered.
C15_Witness ==
    /\ Len(wsLog) = 2
    /\ wsLog[1].op = "error" /\ wsLog[1].changed
    /\ wsLog[2].op = "close" /\ wsLog[2].sock = wsLog[1].sock
    /\ socks[wsLog[2].sock].readyState = "CLOSED"
    /\ clients[socks[wsLog[2].sock].userId] = 0
    /\ \E s \in Socks : Registered(s) /\ socks[s].readyState = "OPEN"

(***************************************************************************)
(* Properties of the socket.io cluster.                                    *)
(***************************************************************************)
\* C13: of one notification emitted to a user from either process, a socket
\* of another user receives no copy and no socket more than one; and once
\* the adapter has handed the broadcast to every process, each socket of
\* the user that has been connected since the emit, on whichever process,
\* has received exactly one.
C13_CrossProcessFanout ==
    ioPub.made =>
        \A s \in Socks :
            /\ ioSocks[s].got <= 1
            /\ ioSocks[s].userId # ioPub.user => ioSocks[s].got = 0
            /\ (pending = {} /\ s \in ioPub.live) => ioSocks[s].got = 1

\* Two sockets of the recipient on different processes have one copy each,
\* and an open socket of another user has none.
C13_Witness ==
    /\ ioPub.made /\ pending = {}
    /\ \E s, t \in ioPub.live :
          /\ ioSocks[s].server # ioSocks[t].server
          /\ ioSocks[s].got = 1 /\ ioSocks[t].got = 1
    /\ \E o \in Socks :
          /\ ioSocks[o].state = "OPEN"
          /\ ioSocks[o].userId \in Users \ {ioPub.user}
          /\ ioSocks[o].got = 0

(***************************************************************************)
(* Properties of the event bus and of the comment controller.              *)
(***************************************************************************)
\* C16: with the NEW_COMMENT handler registered once, an event whose author
\* is the owner of the video starts no creation (and so no delivery) of a
\* notification, and an event whose author is somebody else starts exactly
\* one, with the owner as recipient and the author as sender.
C16_SelfNotificationSuppressed ==
    (/\ busSent.made
     /\ busSent.data.type = "NEW_COMMENT"
     /\ busSent.invoked = <<"onNewComment">>)
    => IF busSent.data.authorId.value = busSent.data.videoOwnerId.value
       THEN busSent.calls = <<>>
       ELSE /\ Len(busSent.calls) = 1
            /\ busSent.calls[1].recipient = busSent.data.videoOwnerId.value
            /\ busSent.calls[1].sender = busSent.data.authorId.value

\* The number of times handler h was invoked for the last event.
Invocations(h) ==
    Cardinality({ k \in DOMAIN busSent.invoked : busSent.invoked[k] = h })

\* C18: whatever a handler of the event's type does (throw, or return a
\* promise that rejects), every handler registered for the type is invoked
\* and emitEvent returns to the producer without raising.
C18_HandlerFailureIsolated ==
    busSent.made =>
        /\ Len(busSent.invoked) = busSent.n
        /\ ~busSent.threw

\* C19: however often registerEventHandlers has run, each of its handlers
\* is invoked once per event of its type, and the event starts the creation
\* of one notification, not two.
C19_SubscribeIdempotent ==
    busSent.made =>
        /\ Invocations("onNewComment") <= 1
        /\ Invocations("onNewSubscription") <= 1
        /\ (\A k \in DOMAIN busSent.invoked :
               busSent.invoked[k] \in {"onNewComment", "onNewSubscription"})
             => Len(busSent.calls) <= 1

\* C20: a request of addComment whose comment was stored is answered with
\* 201, and the comment is still stored.
C20_ProducerDecoupled ==
    (req.pc = "done" /\ req.commentId # 0) =>
        /\ req.status = 201
        /\ req.commentId \in comments

(***************************************************************************)
(* Properties of the read-status functions.                                *)
(***************************************************************************)
\* C17: after markAllAsRead(u), as long as no notification for u has
\* arrived since, every notification of u is read, u has as many
\* notifications as before the call, and getUnreadCount(u) is 0.
C17_MarkAllRead ==
    readOp.kind = "markAll" =>
        /\ \A i \in RowsOf(readOp.user) : store[i].isRead
        /\ Cardinality(RowsOf(readOp.user)) = readOp.total
        /\ getUnreadCount(readOp.user) = 0

\* The user had two notifications, the other user has an unread one.
C17_Witness ==
    /\ readOp.kind = "markAll"
    /\ readOp.total = 2
    /\ \A i \in RowsOf(readOp.user) : store[i].isRead
    /\ \E i \in DOMAIN store : store[i].recipient # readOp.user /\ ~store[i].isRead

(***************************************************************************)
(* Properties of the socket.io cluster without its backplane.              *)
(***************************************************************************)
\* C21: of a notification emitted on a process while Redis is unavailable,
\* and for as long as it stays so, every socket of the user on that process
\* (connected since the emit) has received one copy and no socket on
\* another process has received any; and every notification persisted
\* while Redis was unavailable is in the store.
C21_BackplaneDegradation ==
    /\ (ioPub.made /\ downPub) =>
          \A s \in Socks :
              /\ (s \in ioPub.live /\ ioSocks[s].server = ioPub.from)
                    => ioSocks[s].got = 1
              /\ (ioSocks[s].state = "OPEN" /\ ioSocks[s].server # ioPub.from)
                    => ioSocks[s].got = 0
    /\ downRows \subseteq DOMAIN store

\* The user has a socket on each process; emitted without Redis, the
\* notification has reached the one on the emitting process only, and its
\* row was persisted without Redis.
C21_Witness ==
    /\ ioPub.made /\ downPub /\ ~backplaneUp
    /\ downRows # {}
    /\ \E s, t \in ioPub.live :
          /\ ioSocks[s].server = ioPub.from /\ ioSocks[s].got = 1
          /\ ioSocks[t].server # ioPub.from /\ ioSocks[t].got = 0

(***************************************************************************)
(* Properties of the feed.                                                 *)
(***************************************************************************)
\* The page of a result of limit rows a page that holds its k-th row.
PageOf(k, limit) == ((k - 1) \div limit) + 1

Elements(f) == { f[k] : k \in DOMAIN f }

\* C22: every row persisted for a recipient is returned by a fetch of the
\* recipient's feed, on the page that covers its place, and every page is
\* ordered newest createdAt first; this holds of the row last pushed
\* whether the push was sent, found the socket not open or found nobody,
\* and the push has returned, not thrown.
C22_PullCatchUp ==
    /\ \A r \in Users :
          \A found \in FindSorted(r) :
              /\ Elements(found) = RowsOf(r)
              /\ \A limit \in 1 .. MaxLimit, k \in DOMAIN found :
                    LET result == SkipLimit(found, PageOf(k, limit), limit)
                    IN /\ found[k] \in Elements(result)
                       /\ \A a, b \in DOMAIN result :
                             a < b => store[result[a]].createdAt
                                        >= store[result[b]].createdAt
    /\ wsSent.made =>
          /\ wsSent.outcome \in {Returned(TRUE), Returned(FALSE)}
          /\ \A found \in FindSorted(wsSent.user) :
                \A limit \in 1 .. MaxLimit :
                    \E page \in 1 .. Len(store) :
                        wsSent.id \in Elements(SkipLimit(found, page, limit))

\* The recipient has rows created at different times on different pages,
\* and the push of the oldest found the recipient away.
C22_Witness ==
    /\ wsSent.made /\ wsSent.outcome = Returned(FALSE) /\ wsSent.to = <<>>
    /\ clients[wsSent.user] = 0
    /\ Cardinality(RowsOf(wsSent.user)) > MaxLimit
    /\ \A i \in RowsOf(wsSent.user) \ {wsSent.id} :
          store[i].createdAt > store[wsSent.id].createdAt
    /\ \A result \in getUserNotifications(wsSent.user, 1, MaxLimit) :
          wsSent.id \notin Elements(result)

(***************************************************************************)
(* Properties of the notification collection under all its writers.        *)
(***************************************************************************)
\* What a grouped update may change of a row.
GroupingChange(old, new) ==
    new = [old EXCEPT !.data.count = new.data.count, !.message = new.message,
                      !.isRead = FALSE, !.updatedAt = new.updatedAt]

\* What marking read may change of a row.
ReadChange(old, new) ==
    new = [old EXCEPT !.isRead = TRUE, !.updatedAt = new.updatedAt]

\* What recording a delivery may change of a row.
DeliveryChange(old, new) ==
    new = [old EXCEPT !.deliveryStatus = new.deliveryStatus]

\* C23: no step of event processing, grouping, marking read or recording a
\* delivery removes a notification id, and a step changes an existing row
\* only as a grouped update of that row, a read-status mutation or a
\* delivery-status update does.
C23_RowsNeverDeleted ==
    [][/\ DOMAIN store \subseteq DOMAIN store'
       /\ \A i \in DOMAIN store :
             store'[i] # store[i] =>
                \/ /\ GroupingChange(store[i], store'[i])
                   /\ lastOp' = [kind |-> "update", id |-> i, key |-> KeyOf(store[i])]
                \/ ReadChange(store[i], store'[i])
                \/ DeliveryChange(store[i], store'[i]) /\ dlv.id = i]_vars

\* A row has been grouped, delivered and marked read beside others, by
\* every kind of read-status mutation in turn.
C23_Witness ==
    /\ Len(store) >= 2
    /\ readOp.kind = "markVisible"
    /\ \E i \in DOMAIN store :
          /\ store[i].data.count > 1
          /\ store[i].isRead
          /\ store[i].deliveryStatus.inApp
          /\ applied[i] > 1

(***************************************************************************)
(* Properties of the grouping window and of the rows the engine writes.    *)
(***************************************************************************)
\* The rows of key k created no earlier than one grouping window before t.
Anchored(k, t) ==
    { i \in RowsOfKey(k) : store[i].createdAt >= t - GroupWindowMs }

OldestCreatedAt(k) ==
    CHOOSE t \in { store[i].createdAt : i \in RowsOfKey(k) } :
        \A i \in RowsOfKey(k) : t <= store[i].createdAt

\* C24: in sequential use a call that queried at time t for key k updates
\* a row of k exactly when such a row has createdAt >= t - 1 hour, whatever
\* the rows' updatedAt, and otherwise inserts a row of k with count 1; and
\* once a call has queried more than one hour after the creation of the
\* oldest row of its key, the key has at least two rows.
C24_WindowAnchoredAtCreation ==
    /\ [][(pc[1] = "found" /\ pc'[1] = "idle") =>
            LET k == KeyOf(local[1].newNotification)
                t == local[1].at
            IN IF Anchored(k, t) # {}
               THEN /\ lastOp'.kind = "update"
                    /\ lastOp'.id \in Anchored(k, t)
                    /\ Len(store') = Len(store)
               ELSE /\ lastOp'.kind = "insert"
                    /\ Len(store') = Len(store) + 1
                    /\ KeyOf(store'[Len(store')]) = k
                    /\ store'[Len(store')].data.count = 1]_vars
    /\ [](\A k \in SeenKeys :
            hist[k].last - OldestCreatedAt(k) > GroupWindowMs
                => Cardinality(RowsOfKey(k)) >= 2)

\* A row created more than an hour before the query, but updated within
\* the hour before it, was not updated again: a second row was inserted.
C24_Witness ==
    /\ lastOp.kind = "insert"
    /\ store[lastOp.id].data.count = 1
    /\ \E i \in RowsOfKey(lastOp.key) \ {lastOp.id} :
          /\ store[i].data.count = 2
          /\ store[i].createdAt < hist[lastOp.key].last - GroupWindowMs
          /\ store[i].updatedAt >= hist[lastOp.key].last - GroupWindowMs

\* C25: when an event is merged into a row, the row is unread afterwards,
\* and its recipient's unread count has grown by exactly 1 if the row was
\* read before and is unchanged if it was unread.
C25_GroupedUpdateUnreads ==
    regroup.id # 0 =>
        /\ ~store[regroup.id].isRead
        /\ getUnreadCount(store[regroup.id].recipient)
              = regroup.unread + (IF regroup.wasRead THEN 1 ELSE 0)

\* The recipient had marked the row read, with another row unread; the
\* event was merged into the row and two rows are unread now.
C25_Witness ==
    /\ regroup.id # 0
    /\ regroup.wasRead
    /\ regroup.unread = 1
    /\ ~store[regroup.id].isRead
    /\ store[regroup.id].data.count = 2
    /\ getUnreadCount(store[regroup.id].recipient) = 2

\* C26: a grouped update of a row that has no data.count sets it to 2; of a
\* row that has one, to that count plus 1.
C26_MissingCountIsOne ==
    [][(pc[1] = "found" /\ pc'[1] = "idle" /\ lastOp'.kind = "update") =>
          LET i == lastOp'.id
              prior == store[i].data.count
          IN store'[i].data.count = (IF prior = NoCount THEN 1 ELSE prior) + 1]_vars

\* A row created without a count has taken one grouped update, its first
\* call of the engine, and counts 2.
C26_Witness ==
    /\ lastOp.kind = "update"
    /\ applied[lastOp.id] = 1
    /\ store[lastOp.id].data.count = 2
    /\ store[lastOp.id].message = generateGroupedMessage(store[lastOp.id].type, 2)

\* C27: the row a call inserts has data.count 1, whatever count the
\* candidate's data carried, and the other keys of the candidate's data;
\* it is unread and delivered on no channel.
C27_InsertedRow ==
    [][(pc[1] = "found" /\ pc'[1] = "idle" /\ lastOp'.kind = "insert") =>
          LET c == local[1].newNotification
              row == store'[lastOp'.id]
          IN /\ lastOp'.id = Len(store) + 1
             /\ row.data.count = 1
             /\ row.data.extra = c.data.extra
             /\ ~row.isRead
             /\ \A ch \in DOMAIN row.deliveryStatus : ~row.deliveryStatus[ch]]_vars

\* The candidate whose data carried count 7 and a title was inserted with
\* count 1 and the title.
C27_Witness ==
    /\ lastOp.kind = "insert"
    /\ \E c \in Candidates :
          /\ c.data.count = 7
          /\ KeyOf(c) = lastOp.key
          /\ store[lastOp.id].data = [count |-> 1, extra |-> c.data.extra]
          /\ c.data.extra # Undefined
    /\ ~store[lastOp.id].isRead
    /\ store[lastOp.id].deliveryStatus = NoStatus

\* C28: a grouped update leaves the row's place in the collection,
\* recipient, sender, type, resourceType, resourceId, createdAt,
\* deliveryStatus and the keys of data other than count as they were (only
\* data.count, message, isRead and updatedAt may differ), and leaves every
\* other row as it was.
C28_GroupedUpdateFrame ==
    [][(lastOp'.kind = "update" /\ applied' # applied) =>
          LET i == lastOp'.id
          IN /\ DOMAIN store' = DOMAIN store
             /\ \A j \in DOMAIN store \ {i} : store'[j] = store[j]
             /\ store'[i].recipient = store[i].recipient
             /\ store'[i].sender = store[i].sender
             /\ store'[i].type = store[i].type
             /\ store'[i].resourceType = store[i].resourceType
             /\ store'[i].resourceId = store[i].resourceId
             /\ store'[i].createdAt = store[i].createdAt
             /\ store'[i].deliveryStatus = store[i].deliveryStatus
             /\ store'[i].data.extra = store[i].data.extra
             /\ DOMAIN store'[i] = DOMAIN store[i]
             /\ DOMAIN store'[i].data = DOMAIN store[i].data]_vars

\* A read row with a further key in its data has taken a grouped update
\* some time after its creation, beside another row: count, message,
\* isRead and updatedAt have all changed.
C28_Witness ==
    /\ regroup.id # 0
    /\ regroup.wasRead
    /\ Len(store) >= 2
    /\ store[regroup.id].data.extra # Undefined
    /\ store[regroup.id].data.count = 2
    /\ store[regroup.id].message
          = generateGroupedMessage(store[regroup.id].type, 2)
    /\ ~store[regroup.id].isRead
    /\ store[regroup.id].updatedAt > store[regroup.id].createdAt

(***************************************************************************)
(* Properties of the read-status functions.                                *)
(***************************************************************************)
\* C29: markAsRead(notificationId, userId) on a notification of userId
\* returns it with isRead true and leaves the other rows as they were; on
\* a notification of somebody else, or on an id that does not exist, it
\* returns no document and leaves every row as it was.
C29_MarkAsReadOwnOnly ==
    [][(readOp'.kind = "markOne" /\ started' = started) =>
          LET i == readOp'.id
              u == readOp'.user
          IN IF i \in DOMAIN store /\ store[i].recipient = u
             THEN /\ readOp'.found
                  /\ store'[i].isRead
                  /\ DOMAIN store' = DOMAIN store
                  /\ \A j \in DOMAIN store \ {i} : store'[j] = store[j]
             ELSE /\ ~readOp'.found
                  /\ store' = store]_vars

\* A user has asked to mark another user's unread notification read: no
\* document came back and the notification is still unread.
C29_Witness ==
    /\ readOp.kind = "markOne"
    /\ ~readOp.found
    /\ readOp.id \in DOMAIN store
    /\ store[readOp.id].recipient # readOp.user
    /\ ~store[readOp.id].isRead
    /\ readOp.total >= 1

\* What a step that marks read, for user u, among the ids, may do: no row
\* comes or goes; a row differs at most in isRead and, unless strict, in
\* updatedAt; no flag goes from true to false; rows of others, rows outside
\* the ids and rows already read are as they were.
MarkFrame(u, ids, strict) ==
    /\ DOMAIN store' = DOMAIN store
    /\ \A i \in DOMAIN store :
          /\ store'[i] = [store[i] EXCEPT
                            !.isRead = store'[i].isRead,
                            !.updatedAt = IF strict THEN @ ELSE store'[i].updatedAt]
          /\ store[i].isRead => store'[i].isRead
          /\ (store[i].recipient # u \/ i \notin ids \/ store[i].isRead)
                => store'[i] = store[i]

\* C30 as claimed: markAllAsRead(u) and markVisibleAsRead(ids, u) change
\* nothing but isRead flags, set none from true to false, leave the
\* notifications of other recipients as they were, and markVisibleAsRead
\* leaves the notifications of u outside ids as they were.
C30_OnlyIsReadChanges ==
    [][/\ \A u \in Users :
             MarkAllAsRead(u) => MarkFrame(u, DOMAIN store, TRUE)
       /\ \A u \in Users, ids \in Visible :
             MarkVisibleAsRead(ids, u) => MarkFrame(u, ids, TRUE)]_vars

\* C30, amended: the same, except that a row whose flag is set to true
\* also has its updatedAt set (to the time of the call).
C30_IsReadAndUpdatedAtChange ==
    [][/\ \A u \in Users :
             MarkAllAsRead(u) =>
                /\ MarkFrame(u, DOMAIN store, FALSE)
                /\ \A i \in DOMAIN store :
                      store'[i] # store[i] => store'[i].updatedAt = now
       /\ \A u \in Users, ids \in Visible :
             MarkVisibleAsRead(ids, u) =>
                /\ MarkFrame(u, ids, FALSE)
                /\ \A i \in DOMAIN store :
                      store'[i] # store[i] => store'[i].updatedAt = now]_vars

\* A user has opened the notification centre some time after the
\* notifications were created: one of the user's rows is read and carries
\* the time of the call, another has stayed unread, and so has a row of
\* the other user.
C30_Witness ==
    /\ readOp.kind = "markVisible"
    /\ \E i, j \in RowsOf(readOp.user) :
          /\ store[i].isRead
          /\ store[i].updatedAt = now
          /\ store[i].updatedAt > store[i].createdAt
          /\ ~store[j].isRead
          /\ store[j].updatedAt < now
    /\ \E k \in DOMAIN store :
          store[k].recipient # readOp.user /\ ~store[k].isRead

(***************************************************************************)
(* Further properties of the ws server.                                    *)
(***************************************************************************)
\* C31: when the last registry operation is the close or error of a socket
\* of a user, the user's newest socket, if it is another one and open, is
\* still registered for the user, and a notification then published to the
\* user is sent to it.
C31_DisconnectOwnOnly ==
    \A c1, c2 \in Socks :
        (/\ c1 < c2
         /\ socks[c2].userId # "null"
         /\ socks[c1].userId = socks[c2].userId
         /\ \A t \in Socks : t > c2 => socks[t].userId # socks[c2].userId
         /\ socks[c2].readyState = "OPEN"
         /\ Len(wsLog) >= 1
         /\ wsLog[Len(wsLog)].op \in {"close", "error"}
         /\ wsLog[Len(wsLog)].sock = c1)
        => /\ Registered(c2)
           /\ (wsSent.made /\ wsSent.user = socks[c2].userId) =>
                 \E k \in DOMAIN wsSent.to : wsSent.to[k] = c2

(***************************************************************************)
(* Further properties of the event bus.                                    *)
(***************************************************************************)
\* C32: the handlers invoked for an event were started in the order of
\* their registration for its type: the k-th invocation is of the k-th
\* registered handler.
C32_RegistrationOrder ==
    busSent.made =>
        /\ Len(busSent.invoked) <= Len(listeners[busSent.data.type])
        /\ \A k \in DOMAIN busSent.invoked :
              busSent.invoked[k] = listeners[busSent.data.type][k]

\* Three handlers, the first two different, were invoked for one event.
C32_Witness ==
    /\ busSent.made
    /\ Len(busSent.invoked) = 3
    /\ busSent.invoked[1] # busSent.invoked[2]
    /\ busSent.invoked[2] # busSent.invoked[3]

\* C33: an event that lacks commentText or videoOwnerId raises nothing to
\* its producer and leaves no row (every row has a recipient and a sender
\* that are users), and the process is not ended by it, so that later
\* events are handled.
C33_MalformedPayloadRejected ==
    /\ runtime # "payload"
    /\ (busSent.made /\ busSent.data \in MalformedEvents) => ~busSent.threw
    /\ \A i \in DOMAIN store :
          store[i].recipient \in Users /\ store[i].sender \in Users


(***************************************************************************)
(* Further properties of the delivery router and the preference resolver.  *)
(***************************************************************************)
\* C34: deliveryStatus[c].delivered of a row becomes true only in a step of
\* a delivery of that row in which the resolver permits (recipient, type, c)
\* and the adapter of c reports success; a new row has it false on every
\* channel, and a denied, failed or timed-out channel leaves it as it was.
C34_DeliveryStatusSound ==
    [][\A i \in DOMAIN store' : \A c \in DOMAIN NoStatus :
          LET was == i \in DOMAIN store /\ store[i].deliveryStatus[c]
          IN (store'[i].deliveryStatus[c] /\ ~was) =>
                /\ ~DeliveryDone
                /\ dlv.id = i
                /\ ChannelOrder[dlv.next] = c
                /\ shouldDeliverToChannel(ReadPreferences(store[i].recipient),
                                          PrefKey(store[i].type), c)
                      = Returned(TRUE)
                /\ c \in dlv'.invoked \ dlv'.failed]_vars

\* A finished delivery of a row that had no channel delivered: inApp was
\* permitted and succeeded, email was denied, push was permitted and failed.
C34_Witness ==
    /\ DeliveryDone
    /\ dlv.next # 0
    /\ dlv.before = NoStatus
    /\ dlv.permitted = {"inApp", "push"}
    /\ dlv.failed = {"push"}
    /\ store[dlv.id].deliveryStatus = [NoStatus EXCEPT !.inApp = TRUE]

\* The enum of notificationSchema.type.
NotificationTypes ==
    {"COMMENT", "LIKE", "SUBSCRIPTION", "VIDEO_UPLOAD", "MENTION", "SYSTEM"}

\* C35: for a type that has no entry in the types map of a preference record
\* (every value of the notification type enum is such a type),
\* shouldDeliverToChannel returns false for every channel and does not
\* throw: for the record each call has read, and for every stored record.
C35_UnconfiguredTypeDenied ==
    /\ (call.valid /\ call.readable /\ call.type \notin TypeKeys) =>
          call.outcome = Returned(FALSE)
    /\ \A u \in Users, t \in NotificationTypes, c \in Channels :
          prefs[u].exists =>
              /\ t \notin DOMAIN prefs[u].types
              /\ shouldDeliverToChannel(prefs[u], t, c) = Returned(FALSE)

\* A call for MENTION on a channel whose master toggle is on, against a
\* stored record in which every configured type is enabled.
C35_Witness ==
    /\ call.valid /\ call.readable /\ ~call.created
    /\ call.type = "MENTION"
    /\ call.outcome = Returned(FALSE)
    /\ prefs[call.user].channels[call.channel]
    /\ \A t \in TypeKeys : prefs[call.user].types[t].enabled

\* C36: sendNotificationToUser leaves the registry (and every socket) as it
\* was; when the user's registered connection is open it sends exactly one
\* message, to that connection, and returns true; when the user has no entry
\* or the registered connection is not open it sends nothing and returns
\* false.
C36_PublishLeavesRegistry ==
    [][\A i \in DOMAIN store :
          Publish(i) =>
             LET userId == store[i].recipient
                 client == clients[userId]
             IN /\ clients' = clients
                /\ socks' = socks
                /\ IF client # 0 /\ socks[client].readyState = "OPEN"
                   THEN /\ wsSent'.to = <<client>>
                        /\ wsSent'.outcome = Returned(TRUE)
                   ELSE /\ wsSent'.to = <<>>
                        /\ wsSent'.outcome = Returned(FALSE)]_vars

\* A notification was sent to the open connection that replaced an earlier
\* connection of the user, and both are still as they were.
C36_Witness ==
    /\ wsSent.made
    /\ wsSent.outcome = Returned(TRUE)
    /\ wsSent.to = <<clients[wsSent.user]>>
    /\ \E s \in Socks :
          /\ s # clients[wsSent.user]
          /\ socks[s].userId = wsSent.user
          /\ socks[s].readyState = "OPEN"

\* A connection whose token jwt.verify rejected.
Rejected(s) == socks[s].readyState # "NONE" /\ socks[s].userId = "null"

\* C37: a connection whose token fails verification is closed at once, is
\* registered under no user id, gets neither the connection_successful
\* message nor any notification, has no handler attached, and its close
\* leaves the registry as it was.
C37_UnauthenticatedNeverRegistered ==
    /\ [](\A s \in Socks :
            Rejected(s) =>
               /\ socks[s].readyState \in {"CLOSING", "CLOSED"}
               /\ \A u \in Users : clients[u] # s
               /\ ~socks[s].welcomed
               /\ ~socks[s].listening
               /\ \A k \in DOMAIN wsSent.to : wsSent.to[k] # s)
    /\ [][\A s \in Socks :
            (Rejected(s) /\ socks'[s].readyState # socks[s].readyState)
               => clients' = clients]_vars

\* A rejected connection has closed while another user's connection stays
\* registered and has been sent a notification.
C37_Witness ==
    \E s \in Socks :
        /\ Rejected(s)
        /\ socks[s].readyState = "CLOSED"
        /\ wsSent.made
        /\ Len(wsSent.to) = 1
        /\ wsSent.to[1] # s
        /\ wsSent.to[1] > s

(***************************************************************************)
(* Properties of the login rate limiter and of asyncHandler.               *)
(***************************************************************************)
\* The requests of ip handed to the login handler at a time in [from, to).
PassedIn(ip, from, to) ==
    Cardinality({ i \in DOMAIN passedAt[ip] :
                    from <= passedAt[ip][i] /\ passedAt[ip][i] < to })

C39_ForwardsOnce ==
    \A r \in Calls :
        wrapped[r].kind \in {"resolves", "rejects"} =>
            /\ wrapped[r].phase \in {"returned", "settled"}
            /\ wrapped[r].wrapperNext =
                  (IF wrapped[r].kind = "rejects" /\ wrapped[r].phase = "settled"
                   THEN <<wrapped[r].reason>>
                   ELSE <<>>)

\* One handler has rejected and one has resolved after calling next itself,
\* and both promises have settled.
C39_Witness ==
    \E r, q \in Calls :
        /\ wrapped[r].kind = "rejects" /\ wrapped[r].phase = "settled"
        /\ wrapped[r].wrapperNext = <<"ApiError">>
        /\ wrapped[q].kind = "resolves" /\ wrapped[q].phase = "settled"
        /\ wrapped[q].handlerNext

\* C40: the answer of the limit handler reports the least whole number of
\* minutes, not below 1, that covers the time left until the window ends,
\* as read when the answer is made; and the answer is sent whether or not
\* the log entry could be written.
C40_RetryAfterAtLeastOne ==
    (lastReq.n > 0 /\ lastReq.limited) =>
        LET m == lastReq.answer.retryAfter
            left == lastReq.resetTime - lastReq.answer.now
        IN /\ lastReq.answer.sent
           /\ m >= 1
           /\ m * MsPerMinute >= left
           /\ m > 1 => (m - 1) * MsPerMinute < left

\* The log entry could not be written and the window had already ended
\* when the handler read the time: the answer is sent and says 1 minute.
C40_Witness ==
    /\ lastReq.limited
    /\ ~lastReq.answer.logged
    /\ lastReq.answer.sent
    /\ lastReq.answer.now > lastReq.resetTime
    /\ lastReq.answer.retryAfter = 1

=============================================================================
